---- MODULE Spec2Model ----
(***************************************************************************)
(* Workflow execution engine of AI-Meta-Orchestrator:                      *)
(*   domain/tasks/task_models.py          Task, TaskResult, EvaluationResult*)
(*   domain/workflows/workflow_models.py  Workflow, WorkflowConfig, Result  *)
(*   application/services/orchestrator_service.py                           *)
(*                                        TaskEvaluator, OrchestratorService*)
(* Tasks are identified by their position in workflow.tasks (1..NTasks);    *)
(* the id 0 stands for a UUID that belongs to no task of the workflow.      *)
(***************************************************************************)
EXTENDS Integers, Sequences, FiniteSets, TLC

\* ---------------------------------------------------------------- bounds
NTasks == 3
MaxRevisionsBound == 2
MaxRuns == 1
MaxCalls == 4
MaxReruns == 1
\* run requests made through the REST API for one workflow
MaxRequests == 2

\* ------------------------------------------------------ program constants
\* execute_with_correction_loop(task, max_corrections: int = 3)
DefaultMaxCorrections == 3
\* WorkflowConfig.max_iterations: int = 10
DefaultMaxIterations == 10
\* Task.max_revisions: int = 3
DefaultMaxRevisions == 3

Tasks == 1..NTasks
TaskOrder == [i \in 1..NTasks |-> i]

\* TaskStatus
TaskStatus == {"PENDING", "IN_PROGRESS", "COMPLETED", "FAILED", "NEEDS_REVISION", "BLOCKED"}
\* WorkflowStatus
WorkflowStatus == {"NOT_STARTED", "RUNNING", "PAUSED", "COMPLETED", "FAILED"}
\* WorkflowMode
WorkflowMode == {"SEQUENTIAL", "PARALLEL", "HIERARCHICAL"}

\* TaskResult(success, output, error); output "None" is Python's None, "" the empty string
TaskResult(success, output, error) == [success |-> success, output |-> output, error |-> error]
\* Task.result = None
NoResult == [success |-> FALSE, output |-> "None", error |-> "<no result>"]
\* EvaluationResult(passed, score, issues)
EvaluationResult(passed, score, issues) == [passed |-> passed, score |-> score, issues |-> issues]
\* Task.evaluation = None
NoEvaluation == [passed |-> FALSE, score |-> -1, issues |-> "<no evaluation>"]

\* Task(...) with the dataclass defaults: status PENDING, no result, no evaluation, revision_count 0
NewTask(max_revisions) ==
    [status |-> "PENDING", result |-> NoResult, evaluation |-> NoEvaluation,
     revision_count |-> 0, max_revisions |-> max_revisions]

\* WorkflowResult(success, tasks_completed, tasks_failed, total_iterations, outputs, errors)
WorkflowResult(success, completed, failed, iterations, outs, errs) ==
    [success |-> success, tasks_completed |-> completed, tasks_failed |-> failed,
     total_iterations |-> iterations, outputs |-> outs, errors |-> errs]
\* Workflow.result = None
NoWorkflowResult ==
    [success |-> FALSE, tasks_completed |-> -1, tasks_failed |-> -1, total_iterations |-> -1,
     outputs |-> <<>>, errors |-> <<>>]

\* Workflow(...) with the dataclass defaults
NewWorkflow == [status |-> "NOT_STARTED", current_iteration |-> 0, result |-> NoWorkflowResult]

VARIABLES
    tasks,      \* workflow.tasks: task id -> Task
    deps,       \* task id -> Task.context_tasks (a set of ids)
    wf,         \* the Workflow's status, current_iteration and result
    config,     \* workflow.config
    evaluator,  \* the evaluator of the service: TaskEvaluator or a failing test double
    agent,      \* the agents of the service: any behaviour, or stubs that always succeed
    pc,         \* position of the thread inside run_workflow ("idle": no run in progress)
    idx,        \* SEQUENTIAL: index of the loop variable in workflow.tasks
    futures,    \* PARALLEL: tasks of the current batch not yet taken from as_completed
    w,          \* per task: the execution (execute_single_task / correction loop) in flight
    tally,      \* run_workflow locals tasks_completed, tasks_failed
    outputs,    \* run_workflow local outputs: task id -> output ("<absent>" if no key)
    errors,     \* run_workflow local errors (list)
    returned,   \* what the last run_workflow call returned or raised
    runs,       \* number of run_workflow calls made
    hist,       \* observations of the current run (dispatches, executions, agent outcomes)
    last,       \* the last direct call of a domain-model method and what it returned
    calls,      \* number of direct calls made
    requests,   \* REST: per run request, its position in the handler of the run endpoint
    factory     \* the CrewAIAgentFactory: its _agents cache and the create_agent calls in progress

vars == <<tasks, deps, wf, config, evaluator, agent, pc, idx, futures, w, tally, outputs, errors,
          returned, runs, hist, last, calls, requests, factory>>

\* ------------------------------------------------------------ Task methods
\* Task.mark_in_progress
mark_in_progress(t) == [t EXCEPT !.status = "IN_PROGRESS"]

\* Task.complete
Task_complete(t, result) ==
    [t EXCEPT !.result = result,
              !.status = IF result.success THEN "COMPLETED" ELSE "FAILED"]

\* Task.can_be_revised
can_be_revised(t) == t.revision_count < t.max_revisions

\* request_revision with the bound tested by > in place of >=
request_revision_off_by_one(t, evaluation) ==
    IF t.revision_count > t.max_revisions
    THEN [ret |-> FALSE, task |-> t]
    ELSE [ret |-> TRUE,
          task |-> [t EXCEPT !.evaluation = evaluation,
                             !.revision_count = @ + 1,
                             !.status = "NEEDS_REVISION"]]

\* Task.request_revision: the returned bool and the task after the call
request_revision(t, evaluation) ==
    IF t.revision_count >= t.max_revisions
    THEN [ret |-> FALSE, task |-> t]
    ELSE [ret |-> TRUE,
          task |-> [t EXCEPT !.evaluation = evaluation,
                             !.revision_count = @ + 1,
                             !.status = "NEEDS_REVISION"]]

\* -------------------------------------------------------- Workflow methods
\* Workflow.start
start(wk) == [wk EXCEPT !.status = "RUNNING"]

\* pause without the test of the status
pause_unguarded(wk) == [ret |-> TRUE, wf |-> [wk EXCEPT !.status = "PAUSED"]]

\* Workflow.pause: the returned bool and the workflow after the call
pause(wk) ==
    IF wk.status = "RUNNING"
    THEN [ret |-> TRUE, wf |-> [wk EXCEPT !.status = "PAUSED"]]
    ELSE [ret |-> FALSE, wf |-> wk]

\* Workflow.resume: the returned bool and the workflow after the call
resume(wk) ==
    IF wk.status = "PAUSED"
    THEN [ret |-> TRUE, wf |-> [wk EXCEPT !.status = "RUNNING"]]
    ELSE [ret |-> FALSE, wf |-> wk]

\* Workflow.complete
Workflow_complete(wk, result) ==
    [wk EXCEPT !.result = result,
               !.status = IF result.success THEN "COMPLETED" ELSE "FAILED"]

\* increment_iteration without the test of the bound
increment_iteration_unbounded(wk, cfg) ==
    [ret |-> TRUE, wf |-> [wk EXCEPT !.current_iteration = @ + 1]]

\* Workflow.increment_iteration: the returned bool and the workflow after the call
increment_iteration(wk, cfg) ==
    IF wk.current_iteration >= cfg.max_iterations
    THEN [ret |-> FALSE, wf |-> wk]
    ELSE [ret |-> TRUE, wf |-> [wk EXCEPT !.current_iteration = @ + 1]]

\* Workflow.get_task_by_id: 0 stands for None
get_task_by_id(task_id) == IF task_id \in Tasks THEN task_id ELSE 0

\* Workflow.get_pending_tasks
get_pending_tasks(ts) == SelectSeq(TaskOrder, LAMBDA i : ts[i].status = "PENDING")

\* one task of get_ready_tasks: PENDING and every context task COMPLETED
IsReady(ts, dp, i) ==
    /\ ts[i].status = "PENDING"
    /\ \A d \in dp[i] : get_task_by_id(d) # 0 /\ ts[get_task_by_id(d)].status = "COMPLETED"

\* get_ready_tasks that looks only at the first context task of each task
get_ready_tasks_first_dep(ts, dp) ==
    SelectSeq(TaskOrder,
              LAMBDA i : /\ ts[i].status = "PENDING"
                         /\ \A d \in dp[i] :
                                \/ \E e \in dp[i] : e < d
                                \/ (d \in Tasks /\ ts[d].status = "COMPLETED"))

\* Workflow.get_ready_tasks
get_ready_tasks(ts, dp) == SelectSeq(TaskOrder, LAMBDA i : IsReady(ts, dp, i))

\* is_complete that takes only COMPLETED tasks as done
is_complete_completed_only(ts) == \A i \in DOMAIN ts : ts[i].status = "COMPLETED"

\* Workflow.is_complete, of a workflow whose task list is ts
is_complete(ts) == \A i \in DOMAIN ts : ts[i].status \in {"COMPLETED", "FAILED"}

\* Workflow.get_progress, of a workflow whose task list is ts
get_progress(ts) ==
    <<Cardinality({i \in DOMAIN ts : ts[i].status \in {"COMPLETED", "FAILED"}}), Len(ts)>>


\* ------------------------------------------------------------ TaskEvaluator
\* an evaluator that passes every successful result, with or without output
evaluate_any_output(result) ==
    IF ~result.success
    THEN EvaluationResult(FALSE, 0, IF result.error \in {"None", ""} THEN "Unknown error"
                                    ELSE result.error)
    ELSE EvaluationResult(TRUE, 80, "None")

\* TaskEvaluator.evaluate; its one issue on a failed result is `result.error or "Unknown
\* error"` (the error when it is a non-empty string)
evaluate(result) ==
    IF ~result.success
    THEN EvaluationResult(FALSE, 0, IF result.error \in {"None", ""} THEN "Unknown error"
                                    ELSE result.error)
    ELSE IF result.output = "None" \/ result.output = ""
         THEN EvaluationResult(FALSE, 30, "Empty or missing output")
         ELSE EvaluationResult(TRUE, 80, "None")

\* self._evaluator.evaluate(task, result): the service's TaskEvaluator, or the test double
\* "always_fail" put in its place (an evaluator stub whose every evaluation fails)
Evaluators == {"TaskEvaluator", "always_fail"}
Evaluate(kind, result) ==
    IF kind = "always_fail" THEN EvaluationResult(FALSE, 0, "stub") ELSE evaluate(result)

\* ------------------------------------------------------------------- agents
\* What agent.execute_task(task) can do: return a successful result with output "x",
\* a successful result with empty output, a failed result with an error, or raise
AgentOutcomes == {"ok", "empty", "fail", "raise"}
\* the agents in use: implementations of AgentPort with any of these behaviours, or stubs
\* whose execute_task always returns TaskResult(success=True, output="x")
Agents == {"any", "always_ok", "external_cli"}
\* stubs that may do anything
AgentMayAnything(kind) == AgentOutcomes

\* CLICommandResult(success, output, error) returned by BaseCLIAdapter.execute
CLICommandResult(success, output, error) == [success |-> success, output |-> output, error |-> error]

\* What one call of ExternalCLIAgent.execute_task can meet: the CLI executable not found, the
\* API key not set, or a command that exits 0 with output on stdout, exits 0 with nothing on
\* stdout, exits non-zero with a message on stderr, or exits non-zero with nothing on stderr
CLIOutcomes == {"unavailable", "unauthenticated", "cli_ok", "cli_empty", "cli_fail",
                "cli_fail_silent"}
\* self._cli_adapter.is_available(), self._cli_adapter.is_authenticated()
is_available(o) == o # "unavailable"
is_authenticated(o) == o # "unauthenticated"
\* self._cli_adapter.execute(prompt), the agent's backend
execute(o) ==
    CASE o = "cli_ok" -> CLICommandResult(TRUE, "x", "")
      [] o = "cli_empty" -> CLICommandResult(TRUE, "", "")
      [] o = "cli_fail" -> CLICommandResult(FALSE, "", "err")
      [] OTHER -> CLICommandResult(FALSE, "", "")

\* the error texts of the two availability checks
CLINotAvailable == "<cli> CLI is not available"
CLIAuthRequired == "Authentication required for <cli> CLI"

\* ExternalCLIAgent.execute_task: the returned TaskResult, and whether the backend was invoked
ExternalCLIAgent_execute_task(o) ==
    IF ~is_available(o)
    THEN [result |-> TaskResult(FALSE, "None", CLINotAvailable), invoked |-> FALSE]
    ELSE IF ~is_authenticated(o)
         THEN [result |-> TaskResult(FALSE, "None", CLIAuthRequired), invoked |-> FALSE]
         ELSE [result |-> TaskResult(execute(o).success,
                                     IF execute(o).success THEN execute(o).output ELSE "",
                                     IF ~execute(o).success THEN execute(o).error ELSE ""),
               invoked |-> TRUE]

AgentMay(kind) ==
    CASE kind = "always_ok" -> {"ok"}
      [] kind = "external_cli" -> CLIOutcomes
      [] OTHER -> AgentOutcomes
AgentResult(o) ==
    CASE o = "ok" -> TaskResult(TRUE, "x", "None")
      [] o = "empty" -> TaskResult(TRUE, "", "None")
      [] o \in CLIOutcomes -> ExternalCLIAgent_execute_task(o).result
      [] OTHER -> TaskResult(FALSE, "None", "err")
\* the number of calls of the CLI backend made by one agent call
BackendCalls(o) == IF o \in CLIOutcomes /\ ExternalCLIAgent_execute_task(o).invoked THEN 1 ELSE 0

\* ------------------------------------------------------- tracing spans
\* the spans of one operation and of the operations it calls: those in self._spans, and
\* whether a span was started while open or ended while not open
NoSpans == [open |-> {}, bad |-> FALSE]

\* PlaceholderObservabilityAdapter.start_span: the span is registered
start_span(sp, name) == [open |-> sp.open \cup {name}, bad |-> sp.bad \/ name \in sp.open]

\* an end_span that leaves the span registered
end_span_kept(sp, name) == sp

\* PlaceholderObservabilityAdapter.end_span: the span is removed
end_span(sp, name) == [open |-> sp.open \ {name}, bad |-> sp.bad \/ name \notin sp.open]

\* the spans after TaskEvaluator.evaluate, when it was called: started, and ended by its
\* finally
evaluate_span(sp, invoked) ==
    IF invoked THEN end_span(start_span(sp, "evaluate_task"), "evaluate_task") ELSE sp

\* ------------------------------------------------- executions of single tasks
\* No execution of the task in flight
NoExec == [pc |-> "none", loop |-> FALSE, with_evaluation |-> FALSE, max_corrections |-> 0,
           attempt |-> 0, invocations |-> 0, evaluated |-> FALSE,
           result |-> NoResult, raised |-> FALSE, spans |-> NoSpans]

\* self.execute_task(task, with_evaluation) entered
execute_task(with_evaluation) ==
    [NoExec EXCEPT !.pc = "start", !.with_evaluation = with_evaluation]

\* self.execute_with_correction_loop(task, max_corrections) entered (its span is started):
\* every attempt is self.execute_task(task), with_evaluation left at its default True
execute_with_correction_loop(max_corrections) ==
    [NoExec EXCEPT !.pc = "start", !.loop = TRUE, !.with_evaluation = TRUE,
                   !.max_corrections = max_corrections,
                   !.spans = start_span(NoSpans, "correction_loop")]

\* the spans of an execution when the call that made it returns or raises: the finally of
\* execute_with_correction_loop
loop_finally(e) == IF e.loop THEN end_span(e.spans, "correction_loop") ELSE e.spans

\* execute_single_task(task) of _run_parallel_workflow, and the same choice made inline by
\* the SEQUENTIAL branch of run_workflow: the correction loop (which always evaluates) when
\* enable_correction_loop, else one execute_task with with_evaluation = enable_evaluation
execute_single_task(cfg) ==
    IF cfg.enable_correction_loop
    THEN execute_with_correction_loop(DefaultMaxCorrections)
    ELSE execute_task(cfg.enable_evaluation)

\* execute_task, up to the agent call: its span is started, task.mark_in_progress(), the
\* agent is looked up and agent.execute_task(task) is entered
ExecuteTaskBegin(t) ==
    /\ w[t].pc = "start"
    /\ tasks' = [tasks EXCEPT ![t] = mark_in_progress(@)]
    /\ w' = [w EXCEPT ![t].pc = "agent", ![t].invocations = @ + 1,
                      ![t].spans = start_span(@, "execute_task")]
    /\ UNCHANGED <<deps, factory, requests, wf, config, evaluator, agent, pc, idx, futures, tally, outputs, errors,
                   returned, runs, hist, last, calls>>

\* an execute_task that evaluates every result
EvaluatorInvokedAlways(with_evaluation, result) == TRUE

\* whether execute_task invokes the evaluator: `if with_evaluation and result.success`
EvaluatorInvoked(with_evaluation, result) == with_evaluation /\ result.success

\* the task after execute_task has received `result` from the agent
AfterAgent(t, result, with_evaluation) ==
    IF EvaluatorInvoked(with_evaluation, result)
       /\ ~Evaluate(evaluator, result).passed /\ can_be_revised(tasks[t])
    THEN request_revision(tasks[t], Evaluate(evaluator, result)).task
    ELSE Task_complete(tasks[t], result)

\* execute_task, from the return of agent.execute_task(task) to its own return; an
\* exception of the agent leaves execute_task (and the correction loop) at once, through
\* their finally blocks
AgentReturns(t, o) ==
    /\ w[t].pc = "agent"
    /\ o \in AgentMay(agent)
    /\ IF o = "raise"
       THEN /\ w' = [w EXCEPT ![t].pc = "done", ![t].raised = TRUE,
                              ![t].spans = loop_finally([w[t] EXCEPT
                                               !.spans = end_span(@, "execute_task")])]
            /\ UNCHANGED tasks
       ELSE /\ tasks' = [tasks EXCEPT ![t] = AfterAgent(t, AgentResult(o), w[t].with_evaluation)]
            /\ w' = [w EXCEPT ![t].pc = IF w[t].loop THEN "check" ELSE "done",
                              ![t].result = AgentResult(o),
                              ![t].evaluated =
                                  EvaluatorInvoked(w[t].with_evaluation, AgentResult(o)),
                              ![t].spans =
                                  end_span(evaluate_span(@, EvaluatorInvoked(
                                               w[t].with_evaluation, AgentResult(o))),
                                           "execute_task")]
    /\ hist' = [hist EXCEPT !.backend = @ + BackendCalls(o)]
    /\ UNCHANGED <<deps, factory, requests, wf, config, evaluator, agent, pc, idx, futures, tally, outputs, errors,
                   returned, runs, last, calls>>

\* a loop that also goes round again on FAILED
LoopRetriesOnFailure(status) == status \in {"NEEDS_REVISION", "FAILED"}

\* the test on which the correction loop goes round again: task.status == NEEDS_REVISION
LoopRetries(status) == status = "NEEDS_REVISION"

\* a loop of range(max_corrections + 2)
AttemptsLeftOneMore(attempt, max_corrections) == attempt <= max_corrections

\* whether `for attempt in range(max_corrections + 1)` has another round after this attempt
AttemptsLeft(attempt, max_corrections) == attempt < max_corrections

\* execute_with_correction_loop, after an attempt: return on success, reset the task to
\* PENDING and go round again on NEEDS_REVISION (until range(max_corrections + 1) is
\* used up), break otherwise
CorrectionLoopStep(t) ==
    /\ w[t].pc = "check"
    /\ IF w[t].result.success /\ tasks[t].status = "COMPLETED"
       THEN /\ w' = [w EXCEPT ![t].pc = "done", ![t].spans = loop_finally(w[t])]
            /\ UNCHANGED tasks
       ELSE IF LoopRetries(tasks[t].status)
            THEN /\ tasks' = [tasks EXCEPT ![t].status = "PENDING"]
                 /\ w' = IF AttemptsLeft(w[t].attempt, w[t].max_corrections)
                         THEN [w EXCEPT ![t].pc = "start", ![t].attempt = @ + 1]
                         ELSE [w EXCEPT ![t].pc = "done", ![t].spans = loop_finally(w[t])]
            ELSE /\ w' = [w EXCEPT ![t].pc = "done", ![t].spans = loop_finally(w[t])]
                 /\ UNCHANGED tasks
    /\ UNCHANGED <<deps, factory, requests, wf, config, evaluator, agent, pc, idx, futures, tally, outputs, errors,
                   returned, runs, hist, last, calls>>


\* ------------------------------------------------------------- run_workflow
\* entries of the errors list
TaskError(t) == [kind |-> "Task <name>: <error>", task |-> t]
TaskRaised(t) == [kind |-> "Task <name> raised exception: <e>", task |-> t]
Unresolvable == [kind |-> "Workflow has unresolvable dependencies or no ready tasks", task |-> 0]
WorkflowPaused == [kind |-> "Workflow paused", task |-> 0]
CrewException == [kind |-> "<str(e)>", task |-> 0]

\* keys of the outputs dict: str(task.id), and "crew_result" (key 0)
OutputKeys == 0..NTasks
NoOutputs == [k \in OutputKeys |-> "<absent>"]
NoTally == [tasks_completed |-> 0, tasks_failed |-> 0]

\* how the last run_workflow call ended: not yet, with a WorkflowResult, or by an
\* exception; status is the workflow's status at that moment
NoReturn == [kind |-> "none", result |-> NoWorkflowResult, status |-> "NOT_STARTED"]
Raised(status) == [kind |-> "raised", result |-> NoWorkflowResult, status |-> status]
Returned(result, status) == [kind |-> "result", result |-> result, status |-> status]

\* success taken from the completed tally instead
RunSuccessIfAnyCompleted(tl) == tl.tasks_completed > 0

\* success = tasks_failed == 0
RunSuccess(tl) == tl.tasks_failed = 0

\* the WorkflowResult of a run that is completed
FinalResult(tl, iterations, outs, errs) ==
    WorkflowResult(RunSuccess(tl), tl.tasks_completed, tl.tasks_failed, iterations, outs, errs)

\* the partial WorkflowResult of a paused run
PartialResult(tl, iterations, outs) ==
    WorkflowResult(FALSE, tl.tasks_completed, tl.tasks_failed, iterations, outs,
                   <<WorkflowPaused>>)

\* the pause check at the head of the task loops: workflow.status == WorkflowStatus.PAUSED
PauseObserved(wk) == wk.status = "PAUSED"

\* the no-ready-tasks exit without the error entry
NoReadyErrorsDropped(errs, ts) == errs

\* the errors list after the no-ready-tasks exit of the PARALLEL loop
NoReadyErrors(errs, ts) ==
    IF get_pending_tasks(ts) # <<>> THEN Append(errs, Unresolvable) ELSE errs

\* observations of one run: executions submitted and tallied, how the task loop ended,
\* whether run_workflow was entered with the workflow PAUSED (a resumed workflow), and the
\* number of calls of the CLI backend, and the updates of the locals of the PARALLEL loop
\* made with and without the lock, and the spans of run_workflow and initialize_agents
NoHist == [submitted |-> 0, tallied |-> 0, stop |-> "none", resumed |-> FALSE, backend |-> 0,
           locked |-> 0, unlocked |-> 0, spans |-> NoSpans]

\* an update of the locals of _run_parallel_workflow made outside `with lock:`: counted in
\* hist.unlocked
without_lock(h) == [h EXCEPT !.unlocked = @ + 1]

\* the as_completed loop updating the locals without taking the lock
with_lock_not_taken(h) == [h EXCEPT !.unlocked = @ + 1]

\* an update of the locals of _run_parallel_workflow made inside `with lock:` (the lock is
\* taken, the update made and the lock released in one step of the as_completed loop):
\* counted in hist.locked
with_lock(h) == [h EXCEPT !.locked = @ + 1]

\* a tallying that counts every result as a failure
TallyAlwaysFailed(tl, t, result) == [tl EXCEPT !.tasks_failed = @ + 1]

\* the tallying of one returned TaskResult (both the SEQUENTIAL loop body and the
\* as_completed loop body)
TallyResult(tl, t, result) ==
    IF result.success
    THEN [tl EXCEPT !.tasks_completed = @ + 1]
    ELSE [tl EXCEPT !.tasks_failed = @ + 1]
OutputsAfter(outs, t, result) ==
    IF result.success THEN [outs EXCEPT ![t] = result.output] ELSE outs
ErrorsAfter(errs, t, result) ==
    IF ~result.success /\ result.error # "None" /\ result.error # ""
    THEN Append(errs, TaskError(t)) ELSE errs

\* REST: the run requests (POST /workflows/{id}/run) made for the one workflow, each handled
\* on a thread of its own; a request is "none" (not received), "checked" (the handler has
\* read workflow.status and found it not RUNNING), "rejected" (400), "running" (the handler
\* is inside orchestrator.run_workflow, alone), "overlapping" (it has entered
\* orchestrator.run_workflow while another execution was inside it) or "returned"
Requests == 1..MaxRequests
NoRequests == [r \in Requests |-> "none"]

\* the request whose run_workflow call has ended gets its response
run_returned(rq) == [r \in Requests |-> IF rq[r] = "running" THEN "returned" ELSE rq[r]]

\* the spans after initialize_agents: its span is started, and ended by its finally
initialize_agents(sp) == end_span(start_span(sp, "initialize_agents"), "initialize_agents")

\* ------------------------------------------------------- the agent factory
\* two of the values of AgentRole, and the config argument of create_agent: None (the
\* role's entry of DEFAULT_AGENT_CONFIGS is used) or a custom AgentConfig
Roles == {"developer", "quality_assurance"}
AgentConfigs == {"None", "custom"}

\* a CrewAIAgent instance: the n-th agent created for its role, with the config it was
\* built from; NoAgent where there is none
CrewAIAgent(role, n, cfg) ==
    [role |-> role, n |-> n, config |-> IF cfg = "None" THEN "default" ELSE cfg]
NoAgent == [role |-> "none", n |-> 0, config |-> "none"]

\* a thread that is not inside create_agent
NotInCreate == [pc |-> "out", role |-> "none", config |-> "None", got |-> NoAgent]

\* CrewAIAgentFactory(): an empty cache, no agent created, the threads that call
\* create_agent (through initialize_agents or get_agent_for_task) outside it
NewFactory ==
    [agents |-> [r \in Roles |-> NoAgent],
     created |-> [r \in Roles |-> 0],
     thread |-> [c \in Requests |-> NotInCreate]]

\* run_workflow, from its entry to the branch on config.mode: workflow.start(), the agents
\* of the required roles are initialized, the locals are set
EnterRunWorkflow ==
    /\ pc = "idle"
    /\ runs' = runs + 1
    /\ wf' = start(wf)
    /\ tally' = NoTally
    /\ outputs' = NoOutputs
    /\ errors' = <<>>
    /\ idx' = 1
    /\ futures' = {}
    /\ hist' = [NoHist EXCEPT !.resumed = (wf.status = "PAUSED"),
                              !.spans = initialize_agents(start_span(hist.spans, "workflow"))]
    /\ returned' = NoReturn
    /\ pc' = CASE config.mode = "SEQUENTIAL" -> "seq_loop"
               [] config.mode = "PARALLEL" -> "par_loop"
               [] OTHER -> "crew_kickoff"
    /\ UNCHANGED <<tasks, deps, factory, config, evaluator, agent, w, last, calls>>

\* the first run_workflow call on a workflow
RunWorkflow == runs < MaxRuns /\ EnterRunWorkflow /\ UNCHANGED requests

\* a later run_workflow call on the same workflow, once the call before it has returned or
\* raised
RunWorkflowAgain ==
    runs >= MaxRuns /\ runs < MaxRuns + MaxReruns /\ EnterRunWorkflow /\ UNCHANGED requests

\* SEQUENTIAL: the head of `for task in workflow.tasks`, with the pause check; the task's
\* execution is entered on the same thread
SequentialNext ==
    /\ pc = "seq_loop"
    /\ IF idx > NTasks
       THEN /\ pc' = "finish"
            /\ hist' = [hist EXCEPT !.stop = "exhausted"]
            /\ UNCHANGED w
       ELSE IF PauseObserved(wf)
            THEN /\ pc' = "finish"
                 /\ hist' = [hist EXCEPT !.stop = "pause"]
                 /\ UNCHANGED w
            ELSE /\ pc' = "seq_exec"
                 /\ w' = [w EXCEPT ![idx] = execute_single_task(config)]
                 /\ hist' = [hist EXCEPT !.submitted = @ + 1]
    /\ UNCHANGED <<tasks, deps, factory, requests, wf, config, evaluator, agent, idx, futures, tally, outputs, errors,
                   returned, runs, last, calls>>

\* the call that executes a task (execute_task, execute_with_correction_loop, or the
\* future's result()) has returned or raised
ExecutionDone(e) == e.pc = "done"

\* SEQUENTIAL: the rest of the loop body once the task's execution has returned: the
\* tallying and workflow.increment_iteration(); an exception of the execution leaves
\* run_workflow (no handler in this branch)
SequentialTally ==
    /\ pc = "seq_exec"
    /\ ExecutionDone(w[idx])
    /\ w' = [w EXCEPT ![idx] = NoExec]
    /\ IF w[idx].raised
       THEN /\ pc' = "idle"
            /\ returned' = Raised(wf.status)
            /\ requests' = run_returned(requests)
            /\ hist' = [hist EXCEPT !.spans = end_span(@, "workflow")]
            /\ UNCHANGED <<wf, idx, tally, outputs, errors>>
       ELSE /\ tally' = TallyResult(tally, idx, w[idx].result)
            /\ outputs' = OutputsAfter(outputs, idx, w[idx].result)
            /\ errors' = ErrorsAfter(errors, idx, w[idx].result)
            /\ wf' = increment_iteration(wf, config).wf
            /\ idx' = idx + 1
            /\ pc' = "seq_loop"
            /\ hist' = [hist EXCEPT !.tallied = @ + 1]
            /\ UNCHANGED <<returned, requests>>
    /\ UNCHANGED <<tasks, deps, factory, config, evaluator, agent, futures, runs, last, calls>>

\* a batch made of every pending task, ready or not
BatchOfPending(ts, dp) == {t \in Tasks : ts[t].status = "PENDING"}

\* the tasks a batch of _run_parallel_workflow submits to the executor
Batch(ts, dp) == {get_ready_tasks(ts, dp)[i] : i \in 1..Len(get_ready_tasks(ts, dp))}

\* PARALLEL: the head of `while not workflow.is_complete()`: the pause check, the ready
\* tasks, the no-ready-tasks exit, and the submission of the batch
ParallelNext ==
    /\ pc = "par_loop"
    /\ IF is_complete(tasks)
       THEN /\ pc' = "finish"
            /\ hist' = [hist EXCEPT !.stop = "exhausted"]
            /\ UNCHANGED <<w, futures, errors>>
       ELSE IF PauseObserved(wf)
            THEN /\ pc' = "finish"
                 /\ hist' = [hist EXCEPT !.stop = "pause"]
                 /\ UNCHANGED <<w, futures, errors>>
            ELSE IF get_ready_tasks(tasks, deps) = <<>>
                 THEN /\ pc' = "finish"
                      /\ hist' = IF NoReadyErrors(errors, tasks) # errors
                                 THEN without_lock([hist EXCEPT !.stop = "no_ready_tasks"])
                                 ELSE [hist EXCEPT !.stop = "no_ready_tasks"]
                      /\ errors' = NoReadyErrors(errors, tasks)
                      /\ UNCHANGED <<w, futures>>
                 ELSE /\ pc' = "par_wait"
                      /\ futures' = Batch(tasks, deps)
                      /\ w' = [t \in Tasks |-> IF t \in Batch(tasks, deps)
                                               THEN execute_single_task(config) ELSE w[t]]
                      /\ hist' = [hist EXCEPT !.submitted = @ + Cardinality(Batch(tasks, deps))]
                      /\ UNCHANGED errors
    /\ UNCHANGED <<tasks, deps, factory, requests, wf, config, evaluator, agent, idx, tally, outputs, returned, runs,
                   last, calls>>

\* an exception handler that leaves the task's status as it is
CatchTaskUnmarked(ts, t) == ts

\* the tasks after the handler of the as_completed loop: task.status = TaskStatus.FAILED
CatchTask(ts, t) == [ts EXCEPT ![t].status = "FAILED"]

\* a loop over the futures that is left as soon as one future has been collected
as_completed_first(fs, t) == "par_loop"

\* `for future in as_completed(futures)`: where the thread of run_workflow is after it has
\* collected the future of t: back at the head of the while loop only when every future
\* of the batch has been collected
as_completed(fs, t) == IF fs = {t} THEN "par_loop" ELSE "par_wait"

\* PARALLEL: one round of `for future in as_completed(futures)`: the result of a finished
\* execution is tallied under the lock, or its exception is caught, the task set FAILED
ParallelCollect(t) ==
    /\ pc = "par_wait"
    /\ t \in futures
    /\ ExecutionDone(w[t])
    /\ futures' = futures \ {t}
    /\ w' = [w EXCEPT ![t] = NoExec]
    /\ pc' = as_completed(futures, t)
    /\ hist' = with_lock([hist EXCEPT !.tallied = @ + 1])
    /\ IF w[t].raised
       THEN /\ tasks' = CatchTask(tasks, t)
            /\ tally' = [tally EXCEPT !.tasks_failed = @ + 1]
            /\ errors' = Append(errors, TaskRaised(t))
            /\ UNCHANGED <<outputs, wf>>
       ELSE /\ tally' = TallyResult(tally, t, w[t].result)
            /\ outputs' = OutputsAfter(outputs, t, w[t].result)
            /\ errors' = ErrorsAfter(errors, t, w[t].result)
            /\ wf' = increment_iteration(wf, config).wf
            /\ UNCHANGED tasks
    /\ UNCHANGED <<deps, factory, requests, config, evaluator, agent, idx, returned, runs, last, calls>>

\* HIERARCHICAL: crew.kickoff() returns (every task counted completed, the crew's result
\* stored under "crew_result") or raises (every task counted failed, str(e) recorded)
CrewKickoff(ok) ==
    /\ pc = "crew_kickoff"
    /\ pc' = "finish"
    /\ hist' = [hist EXCEPT !.stop = "exhausted"]
    /\ IF ok
       THEN /\ tally' = [tally EXCEPT !.tasks_completed = NTasks]
            /\ outputs' = [outputs EXCEPT ![0] = "x"]
            /\ UNCHANGED errors
       ELSE /\ tally' = [tally EXCEPT !.tasks_failed = NTasks]
            /\ errors' = Append(errors, CrewException)
            /\ UNCHANGED outputs
    /\ UNCHANGED <<tasks, deps, factory, requests, wf, config, evaluator, agent, idx, futures, w, returned, runs,
                   last, calls>>

\* run_workflow, after the mode branch: "only complete if not paused", else the partial
\* result of a paused workflow
Finish ==
    /\ pc = "finish"
    /\ pc' = "idle"
    /\ requests' = run_returned(requests)
    /\ IF wf.status # "PAUSED"
       THEN /\ wf' = Workflow_complete(wf, FinalResult(tally, wf.current_iteration, outputs, errors))
            /\ returned' = Returned(FinalResult(tally, wf.current_iteration, outputs, errors),
                                    wf'.status)
       ELSE /\ returned' = Returned(PartialResult(tally, wf.current_iteration, outputs), wf.status)
            /\ UNCHANGED wf
    /\ hist' = [hist EXCEPT !.spans = end_span(@, "workflow")]
    /\ UNCHANGED <<tasks, deps, factory, config, evaluator, agent, idx, futures, w, tally, outputs, errors,
                   runs, last, calls>>

\* workflow.pause() called by another thread
Pause ==
    /\ pause(wf).ret
    /\ wf' = pause(wf).wf
    /\ UNCHANGED <<tasks, deps, factory, requests, config, evaluator, agent, pc, idx, futures, w, tally, outputs, errors,
                   returned, runs, hist, last, calls>>

\* workflow.resume() called by another thread
Resume ==
    /\ resume(wf).ret
    /\ wf' = resume(wf).wf
    /\ UNCHANGED <<tasks, deps, factory, requests, config, evaluator, agent, pc, idx, futures, w, tally, outputs, errors,
                   returned, runs, hist, last, calls>>


\* ------------------------------------------- direct calls of the domain model
\* no direct call made yet
NoCall ==
    [op |-> "none", task |-> 0, ret |-> FALSE, ready |-> <<>>, progress |-> <<0, 0>>, n |-> 0,
     task_before |-> NewTask(0), wf_before |-> NewWorkflow,
     result |-> NoResult, evaluation |-> NoEvaluation]

\* a call of a Task method on task t returning ret
TaskCall(op, t, ret) == [NoCall EXCEPT !.op = op, !.task = t, !.ret = ret, !.task_before = tasks[t]]
\* a call of a Workflow method returning ret
WorkflowCall(op, ret) == [NoCall EXCEPT !.op = op, !.ret = ret, !.wf_before = wf]

\* task.mark_in_progress()
CallMarkInProgress(t) ==
    /\ calls < MaxCalls
    /\ calls' = calls + 1
    /\ tasks' = [tasks EXCEPT ![t] = mark_in_progress(@)]
    /\ last' = TaskCall("mark_in_progress", t, FALSE)
    /\ UNCHANGED <<deps, factory, requests, wf, config, evaluator, agent, pc, idx, futures, w, tally, outputs,
                   errors, returned, runs, hist>>

\* task.complete(result)
CallComplete(t, result) ==
    /\ calls < MaxCalls
    /\ calls' = calls + 1
    /\ tasks' = [tasks EXCEPT ![t] = Task_complete(@, result)]
    /\ last' = TaskCall("complete", t, FALSE)
    /\ UNCHANGED <<deps, factory, requests, wf, config, evaluator, agent, pc, idx, futures, w, tally, outputs,
                   errors, returned, runs, hist>>

\* task.request_revision(evaluation)
CallRequestRevision(t, evaluation) ==
    /\ calls < MaxCalls
    /\ calls' = calls + 1
    /\ tasks' = [tasks EXCEPT ![t] = request_revision(@, evaluation).task]
    /\ last' = TaskCall("request_revision", t, request_revision(tasks[t], evaluation).ret)
    /\ UNCHANGED <<deps, factory, requests, wf, config, evaluator, agent, pc, idx, futures, w, tally, outputs,
                   errors, returned, runs, hist>>

\* the correction loop's reset: task.status = TaskStatus.PENDING when NEEDS_REVISION
CallResetPending(t) ==
    /\ calls < MaxCalls
    /\ tasks[t].status = "NEEDS_REVISION"
    /\ calls' = calls + 1
    /\ tasks' = [tasks EXCEPT ![t].status = "PENDING"]
    /\ last' = TaskCall("reset", t, FALSE)
    /\ UNCHANGED <<deps, factory, requests, wf, config, evaluator, agent, pc, idx, futures, w, tally, outputs,
                   errors, returned, runs, hist>>

\* workflow.start()
CallStart ==
    /\ calls < MaxCalls
    /\ calls' = calls + 1
    /\ wf' = start(wf)
    /\ last' = WorkflowCall("start", FALSE)
    /\ UNCHANGED <<tasks, deps, factory, requests, config, evaluator, agent, pc, idx, futures, w, tally, outputs,
                   errors, returned, runs, hist>>

\* workflow.pause()
CallPause ==
    /\ calls < MaxCalls
    /\ calls' = calls + 1
    /\ wf' = pause(wf).wf
    /\ last' = WorkflowCall("pause", pause(wf).ret)
    /\ UNCHANGED <<tasks, deps, factory, requests, config, evaluator, agent, pc, idx, futures, w, tally, outputs,
                   errors, returned, runs, hist>>

\* workflow.resume()
CallResume ==
    /\ calls < MaxCalls
    /\ calls' = calls + 1
    /\ wf' = resume(wf).wf
    /\ last' = WorkflowCall("resume", resume(wf).ret)
    /\ UNCHANGED <<tasks, deps, factory, requests, config, evaluator, agent, pc, idx, futures, w, tally, outputs,
                   errors, returned, runs, hist>>

\* workflow.complete(WorkflowResult(success=success))
CallWorkflowComplete(success) ==
    /\ calls < MaxCalls
    /\ calls' = calls + 1
    /\ wf' = Workflow_complete(wf, WorkflowResult(success, 0, 0, 0, NoOutputs, <<>>))
    /\ last' = WorkflowCall("workflow_complete", FALSE)
    /\ UNCHANGED <<tasks, deps, factory, requests, config, evaluator, agent, pc, idx, futures, w, tally, outputs,
                   errors, returned, runs, hist>>

\* workflow.increment_iteration()
CallIncrementIteration ==
    /\ calls < MaxCalls
    /\ calls' = calls + 1
    /\ wf' = increment_iteration(wf, config).wf
    /\ last' = WorkflowCall("increment_iteration", increment_iteration(wf, config).ret)
    /\ UNCHANGED <<tasks, deps, factory, requests, config, evaluator, agent, pc, idx, futures, w, tally, outputs,
                   errors, returned, runs, hist>>

\* workflow.get_ready_tasks()
CallGetReadyTasks ==
    /\ calls < MaxCalls
    /\ calls' = calls + 1
    /\ last' = [WorkflowCall("get_ready_tasks", FALSE) EXCEPT !.ready = get_ready_tasks(tasks, deps)]
    /\ UNCHANGED <<tasks, deps, factory, requests, wf, config, evaluator, agent, pc, idx, futures, w, tally, outputs,
                   errors, returned, runs, hist>>

\* task.status = status, as the unit tests set it
CallSetStatus(t, status) ==
    /\ calls < MaxCalls
    /\ calls' = calls + 1
    /\ tasks' = [tasks EXCEPT ![t].status = status]
    /\ last' = TaskCall("set_status", t, FALSE)
    /\ UNCHANGED <<deps, factory, requests, wf, config, evaluator, agent, pc, idx, futures, w, tally, outputs,
                   errors, returned, runs, hist>>

\* is_complete() of a workflow to which the first n tasks have been added
CallIsComplete(n) ==
    /\ calls < MaxCalls
    /\ calls' = calls + 1
    /\ last' = [WorkflowCall("is_complete", is_complete(SubSeq(tasks, 1, n))) EXCEPT !.n = n]
    /\ UNCHANGED <<tasks, deps, factory, requests, wf, config, evaluator, agent, pc, idx, futures, w, tally, outputs,
                   errors, returned, runs, hist>>

\* get_progress() of a workflow to which the first n tasks have been added
CallGetProgress(n) ==
    /\ calls < MaxCalls
    /\ calls' = calls + 1
    /\ last' = [WorkflowCall("get_progress", FALSE)
                  EXCEPT !.n = n, !.progress = get_progress(SubSeq(tasks, 1, n))]
    /\ UNCHANGED <<tasks, deps, factory, requests, wf, config, evaluator, agent, pc, idx, futures, w, tally, outputs,
                   errors, returned, runs, hist>>

\* service.execute_task(task, with_evaluation) called directly, by a caller that makes one
\* call at a time
CallExecuteTask(t, with_evaluation) ==
    /\ calls < MaxCalls
    /\ \A u \in Tasks : w[u] = NoExec
    /\ calls' = calls + 1
    /\ w' = [w EXCEPT ![t] = execute_task(with_evaluation)]
    /\ last' = TaskCall("execute_task", t, FALSE)
    /\ UNCHANGED <<tasks, deps, factory, requests, wf, config, evaluator, agent, pc, idx, futures, tally, outputs,
                   errors, returned, runs, hist>>

\* service.execute_with_correction_loop(task, max_corrections) called directly
CallExecuteWithCorrectionLoop(t, max_corrections) ==
    /\ calls < MaxCalls
    /\ \A u \in Tasks : w[u] = NoExec
    /\ calls' = calls + 1
    /\ w' = [w EXCEPT ![t] = execute_with_correction_loop(max_corrections)]
    /\ last' = TaskCall("execute_with_correction_loop", t, FALSE)
    /\ UNCHANGED <<tasks, deps, factory, requests, wf, config, evaluator, agent, pc, idx, futures, tally, outputs,
                   errors, returned, runs, hist>>

\* the caller has received the result (or the exception) of its direct call
CallReturned(t) ==
    /\ pc = "idle"
    /\ ExecutionDone(w[t])
    /\ w' = [w EXCEPT ![t] = NoExec]
    /\ UNCHANGED <<tasks, deps, factory, requests, wf, config, evaluator, agent, pc, idx, futures, tally, outputs,
                   errors, returned, runs, hist, last, calls>>

\* ------------------------------------------------------------ specifications
\* dependency graphs: no dependencies; the chain 1 <- 2 <- ... ; tasks 1 and 2 depending on
\* each other; every later task depending on task 1 and the last one on task 2 as well
NoDeps == [t \in Tasks |-> {}]
Chain == [t \in Tasks |-> IF t = 1 THEN {} ELSE {t - 1}]
Cycle == [t \in Tasks |-> IF t = 1 THEN {2} ELSE IF t = 2 THEN {1} ELSE {}]
Fan == [t \in Tasks |-> IF t = 1 THEN {} ELSE IF t = NTasks THEN {1, 2} ELSE {1}]
\* every graph in which each task names at most one id, of a task or of none (0)
SingleDepGraphs == [Tasks -> {{}} \cup {{d} : d \in 0..NTasks}]

\* the evaluators and agents a service is run with: the production evaluator with any
\* agents, and the stubs of the end-to-end scenarios
Doubles == {<<"TaskEvaluator", "any">>, <<"TaskEvaluator", "always_ok">>,
            <<"always_fail", "always_ok">>}

\* the state after the caller has built the workflow and the service
InitWith(modes, iterations, revisions, graphs, doubles) ==
    /\ \E mr \in revisions : tasks = [t \in Tasks |-> NewTask(mr)]
    /\ deps \in graphs
    /\ wf = NewWorkflow
    /\ config \in [mode : modes, max_iterations : iterations,
                   enable_evaluation : BOOLEAN, enable_correction_loop : BOOLEAN]
    /\ \E d \in doubles : evaluator = d[1] /\ agent = d[2]
    /\ pc = "idle"
    /\ idx = 1
    /\ futures = {}
    /\ w = [t \in Tasks |-> NoExec]
    /\ tally = NoTally
    /\ outputs = NoOutputs
    /\ errors = <<>>
    /\ returned = NoReturn
    /\ runs = 0
    /\ hist = NoHist
    /\ last = NoCall
    /\ calls = 0
    /\ requests = NoRequests
    /\ factory = NewFactory

Init ==
    InitWith(WorkflowMode, {NTasks - 1, DefaultMaxIterations}, 0..MaxRevisionsBound,
             {NoDeps, Chain}, Doubles)

Next ==
    \/ RunWorkflow
    \/ SequentialNext
    \/ SequentialTally
    \/ ParallelNext
    \/ \E t \in Tasks : ParallelCollect(t)
    \/ \E ok \in BOOLEAN : CrewKickoff(ok)
    \/ \E t \in Tasks : ExecuteTaskBegin(t)
    \/ \E t \in Tasks, o \in AgentOutcomes : AgentReturns(t, o)
    \/ \E t \in Tasks : CorrectionLoopStep(t)
    \/ Finish
    \/ Pause
    \/ Resume

Spec == Init /\ [][Next]_vars

\* PARALLEL runs over every single-dependency graph and the graphs above
InitPar ==
    InitWith({"PARALLEL"}, {DefaultMaxIterations}, 0..MaxRevisionsBound,
             SingleDepGraphs \cup {Fan}, Doubles)

NextPar ==
    \/ RunWorkflow
    \/ ParallelNext
    \/ \E t \in Tasks : ParallelCollect(t)
    \/ \E t \in Tasks : ExecuteTaskBegin(t)
    \/ \E t \in Tasks, o \in AgentOutcomes : AgentReturns(t, o)
    \/ \E t \in Tasks : CorrectionLoopStep(t)
    \/ Finish
    \/ Pause
    \/ Resume

SpecPar == InitPar /\ [][NextPar]_vars

\* the steps of the thread in run_workflow and of the pool's workers; every agent call returns
EnginePar ==
    \/ ParallelNext
    \/ \E t \in Tasks : ParallelCollect(t)
    \/ \E t \in Tasks : ExecuteTaskBegin(t)
    \/ \E t \in Tasks, o \in AgentOutcomes : AgentReturns(t, o)
    \/ \E t \in Tasks : CorrectionLoopStep(t)
    \/ Finish

\* PARALLEL runs of the graphs in which tasks can be left waiting for ever (a cycle, a chain
\* or a fan behind a task that fails), whose threads keep being scheduled
InitDeadlock ==
    InitWith({"PARALLEL"}, {DefaultMaxIterations}, {0, 1}, {Cycle, Chain, Fan}, Doubles)

SpecDeadlock == InitDeadlock /\ [][NextPar]_vars

FairSpecDeadlock == SpecDeadlock /\ WF_vars(EnginePar)


\* SEQUENTIAL and PARALLEL runs followed by further run_workflow calls on the same workflow
\* (a paused or finished workflow run again), with increment_iteration also called directly
InitRerun ==
    InitWith({"SEQUENTIAL", "PARALLEL"}, {NTasks - 1}, {1}, {NoDeps, Chain},
             {<<"TaskEvaluator", "always_ok">>, <<"always_fail", "always_ok">>})

NextRerun ==
    \/ RunWorkflow
    \/ RunWorkflowAgain
    \/ SequentialNext
    \/ SequentialTally
    \/ ParallelNext
    \/ \E t \in Tasks : ParallelCollect(t)
    \/ \E t \in Tasks : ExecuteTaskBegin(t)
    \/ \E t \in Tasks, o \in AgentOutcomes : AgentReturns(t, o)
    \/ \E t \in Tasks : CorrectionLoopStep(t)
    \/ Finish
    \/ Pause
    \/ Resume
    \/ CallIncrementIteration

SpecRerun == InitRerun /\ [][NextRerun]_vars

\* SEQUENTIAL runs with agents of any behaviour, followed by a further run_workflow call on
\* the same workflow
InitSeqRerun ==
    InitWith({"SEQUENTIAL"}, {DefaultMaxIterations}, {1}, {NoDeps}, {<<"TaskEvaluator", "any">>})

NextSeqRerun ==
    \/ RunWorkflow
    \/ RunWorkflowAgain
    \/ SequentialNext
    \/ SequentialTally
    \/ \E t \in Tasks : ExecuteTaskBegin(t)
    \/ \E t \in Tasks, o \in AgentOutcomes : AgentReturns(t, o)
    \/ \E t \in Tasks : CorrectionLoopStep(t)
    \/ Finish
    \/ Pause
    \/ Resume

SpecSeqRerun == InitSeqRerun /\ [][NextSeqRerun]_vars

\* SEQUENTIAL and PARALLEL runs with the stubs of the end-to-end scenarios A and C (agents
\* that always succeed with output, evaluations that pass), whose threads keep being
\* scheduled
InitStubs ==
    InitWith({"SEQUENTIAL", "PARALLEL"}, {DefaultMaxIterations}, {0, 1},
             {NoDeps, Chain, Fan, Cycle}, {<<"TaskEvaluator", "always_ok">>})

NextStubs ==
    \/ RunWorkflow
    \/ SequentialNext
    \/ SequentialTally
    \/ ParallelNext
    \/ \E t \in Tasks : ParallelCollect(t)
    \/ \E t \in Tasks : ExecuteTaskBegin(t)
    \/ \E t \in Tasks, o \in AgentOutcomes : AgentReturns(t, o)
    \/ \E t \in Tasks : CorrectionLoopStep(t)
    \/ Finish
    \/ Pause
    \/ Resume

\* the steps of the thread in run_workflow and of the pool's workers
EngineStubs ==
    \/ SequentialNext
    \/ SequentialTally
    \/ EnginePar

FairSpecStubs == InitStubs /\ [][NextStubs]_vars /\ WF_vars(EngineStubs)

\* SEQUENTIAL and PARALLEL runs of a service whose agents are ExternalCLIAgents
InitCli ==
    InitWith({"SEQUENTIAL", "PARALLEL"}, {DefaultMaxIterations}, {0, 1}, {NoDeps, Chain},
             {<<"TaskEvaluator", "external_cli">>})

NextCli ==
    \/ RunWorkflow
    \/ SequentialNext
    \/ SequentialTally
    \/ ParallelNext
    \/ \E t \in Tasks : ParallelCollect(t)
    \/ \E t \in Tasks : ExecuteTaskBegin(t)
    \/ \E t \in Tasks, o \in CLIOutcomes : AgentReturns(t, o)
    \/ \E t \in Tasks : CorrectionLoopStep(t)
    \/ Finish
    \/ Pause
    \/ Resume

SpecCli == InitCli /\ [][NextCli]_vars

\* PARALLEL runs of tasks created with one revision more than the correction loop has
\* rounds (max_revisions = 4), with agents that always succeed and evaluations that always fail
InitManyRevisions ==
    InitWith({"PARALLEL"}, {DefaultMaxIterations}, {DefaultMaxCorrections + 1}, {NoDeps},
             {<<"always_fail", "always_ok">>})

SpecManyRevisions == InitManyRevisions /\ [][NextPar]_vars

\* execute_task and execute_with_correction_loop called directly, one call after another on
\* the same task (the first of the list), with loops of 0, 1 and the default number of
\* corrections
MaxCorrections == {0, 1, DefaultMaxCorrections}

InitExecute ==
    InitWith({"SEQUENTIAL"}, {DefaultMaxIterations}, 0..MaxRevisionsBound, {NoDeps},
             {<<"TaskEvaluator", "any">>, <<"always_fail", "always_ok">>})

NextExecute ==
    \/ \E with_evaluation \in BOOLEAN : CallExecuteTask(1, with_evaluation)
    \/ \E mc \in MaxCorrections : CallExecuteWithCorrectionLoop(1, mc)
    \/ \E t \in Tasks : ExecuteTaskBegin(t)
    \/ \E t \in Tasks, o \in AgentOutcomes : AgentReturns(t, o)
    \/ \E t \in Tasks : CorrectionLoopStep(t)
    \/ \E t \in Tasks : CallReturned(t)

SpecExecute == InitExecute /\ [][NextExecute]_vars

\* The domain model driven directly, as the unit tests drive it: any sequence of at most
\* MaxCalls calls. The Task methods on the tasks of a workflow:
InitTask ==
    InitWith({"SEQUENTIAL"}, {DefaultMaxIterations}, 0..MaxRevisionsBound, {NoDeps},
             {<<"TaskEvaluator", "any">>})

NextTask ==
    \/ \E t \in Tasks : CallMarkInProgress(t)
    \/ \E t \in Tasks, o \in {"ok", "fail"} : CallComplete(t, AgentResult(o))
    \/ \E t \in Tasks : CallRequestRevision(t, evaluate(AgentResult("empty")))
    \/ \E t \in Tasks : CallResetPending(t)

SpecTask == InitTask /\ [][NextTask]_vars

\* the Workflow's life-cycle methods:
InitWorkflow ==
    InitWith({"SEQUENTIAL"}, {NTasks - 1, DefaultMaxIterations}, {DefaultMaxRevisions},
             {NoDeps}, {<<"TaskEvaluator", "any">>})

NextWorkflow ==
    \/ CallStart
    \/ CallPause
    \/ CallResume
    \/ \E success \in BOOLEAN : CallWorkflowComplete(success)
    \/ CallIncrementIteration

SpecWorkflow == InitWorkflow /\ [][NextWorkflow]_vars

\* Workflow.get_ready_tasks between changes of the tasks' statuses:
InitReady ==
    InitWith({"PARALLEL"}, {DefaultMaxIterations}, {DefaultMaxRevisions},
             SingleDepGraphs \cup {Fan}, {<<"TaskEvaluator", "any">>})

NextReady ==
    \/ \E t \in Tasks : CallMarkInProgress(t)
    \/ \E t \in Tasks, o \in {"ok", "fail"} : CallComplete(t, AgentResult(o))
    \/ CallGetReadyTasks

SpecReady == InitReady /\ [][NextReady]_vars

\* Workflow.is_complete and get_progress between changes of the tasks' statuses, on workflows
\* of 0 to NTasks tasks:
InitProgress ==
    InitWith({"SEQUENTIAL"}, {DefaultMaxIterations}, {DefaultMaxRevisions}, {NoDeps},
             {<<"TaskEvaluator", "any">>})

NextProgress ==
    \/ \E t \in Tasks, status \in TaskStatus : CallSetStatus(t, status)
    \/ \E n \in 0..NTasks : CallIsComplete(n)
    \/ \E n \in 0..NTasks : CallGetProgress(n)

SpecProgress == InitProgress /\ [][NextProgress]_vars


\* ===================================================================== claims
Range(seq) == {seq[i] : i \in 1..Len(seq)}

\* C1: revision_count never exceeds max_revisions, whatever sequence of request_revision,
\* mark_in_progress, complete and resets to PENDING is applied to a task; and a
\* request_revision made when revision_count equals max_revisions returns false and leaves
\* the task (revision_count, status, evaluation) as it was.
C1_RevisionBound ==
    /\ \A t \in Tasks : tasks[t].revision_count <= tasks[t].max_revisions
    /\ (last.op = "request_revision"
        /\ last.task_before.revision_count = last.task_before.max_revisions)
       => (~last.ret /\ tasks[last.task] = last.task_before)
    /\ (last.op = "request_revision"
        /\ last.task_before.revision_count < last.task_before.max_revisions)
       => (last.ret /\ tasks[last.task].revision_count = last.task_before.revision_count + 1)

\* C1 witness: the unit test's case, a third request_revision on a task with max_revisions = 2
C1_Witness ==
    /\ last.op = "request_revision"
    /\ last.task_before.max_revisions = 2
    /\ last.task_before.revision_count = 2
    /\ ~last.ret

\* C2: in PARALLEL mode a task is IN_PROGRESS, or its agent call is in flight, only while
\* every id of its context_tasks is a task of the workflow with status COMPLETED.
C2_DependenciesFirst ==
    \A t \in Tasks :
        (config.mode = "PARALLEL" /\ (tasks[t].status = "IN_PROGRESS" \/ w[t].pc = "agent"))
        => \A d \in deps[t] : d \in Tasks /\ tasks[d].status = "COMPLETED"

\* C2 witness: the agent call of a task with a dependency is in flight
C2_Witness ==
    \E t \in Tasks : config.mode = "PARALLEL" /\ w[t].pc = "agent" /\ deps[t] # {}

\* C3: get_ready_tasks returns, in insertion order and without repetition, exactly the
\* PENDING tasks all of whose context_tasks are tasks of the workflow with status COMPLETED.
C3_ReadyTasks ==
    last.op = "get_ready_tasks"
    => /\ \A i, j \in 1..Len(last.ready) : i < j => last.ready[i] < last.ready[j]
       /\ Range(last.ready) =
              {t \in Tasks : /\ tasks[t].status = "PENDING"
                             /\ deps[t] \subseteq {d \in Tasks : tasks[d].status = "COMPLETED"}}

\* C3 witness: a task with two dependencies is returned once both are COMPLETED
C3_Witness ==
    /\ last.op = "get_ready_tasks"
    /\ \E t \in Range(last.ready) : Cardinality(deps[t]) = 2


\* a run_workflow call has returned a WorkflowResult and no other run has begun
HasReturned == pc = "idle" /\ returned.kind = "result"

\* a PENDING task that can never become ready: it and one of its context tasks depend on
\* each other, or one of its context tasks ended FAILED
NeverReady(t) ==
    /\ tasks[t].status = "PENDING"
    /\ \E d \in deps[t] \cap Tasks :
           \/ tasks[d].status = "FAILED"
           \/ (d # t /\ t \in deps[d] /\ tasks[d].status = "PENDING")

\* C4 as stated: every PARALLEL run that returns with a task that can never become ready
\* reports the unresolvable-dependency error in the returned errors.
C4_AsStated ==
    (HasReturned /\ \E t \in Tasks : NeverReady(t))
    => Unresolvable \in Range(returned.result.errors)

\* C4, amended: every PARALLEL run terminates, and a run that is not ended by a pause (the
\* workflow is PAUSED neither at the head of the loop nor at run_workflow's final check) and
\* returns with a task that can never become ready reports the unresolvable-dependency error.
C4_DeadlockReported ==
    /\ [](( /\ HasReturned
            /\ hist.stop # "pause"
            /\ returned.status # "PAUSED"
            /\ \E t \in Tasks : NeverReady(t))
          => Unresolvable \in Range(returned.result.errors))
    /\ (pc # "idle" ~> pc = "idle")

\* C4 witness: a run returned the error with a task waiting on a FAILED task
C4_Witness ==
    /\ HasReturned
    /\ hist.stop = "no_ready_tasks"
    /\ \E t \in Tasks : NeverReady(t) /\ \E d \in deps[t] \cap Tasks : tasks[d].status = "FAILED"
    /\ Unresolvable \in Range(returned.result.errors)

\* C5: a returned WorkflowResult has success = false whenever tasks_failed > 0, or the run
\* was aborted on an unresolvable dependency graph, or the run was paused.
C5_FailureReported ==
    (HasReturned
     /\ \/ returned.result.tasks_failed > 0
        \/ (hist.stop = "no_ready_tasks" /\ Unresolvable \in Range(errors))
        \/ hist.stop = "pause"
        \/ returned.status = "PAUSED")
    => ~returned.result.success

\* C6: when run_workflow returns with the workflow not PAUSED, the result's success is
\* tasks_failed == 0, the workflow is COMPLETED if success and FAILED otherwise, and
\* workflow.result is the returned result.
C6_CompletedResult ==
    (HasReturned /\ returned.status # "PAUSED")
    => /\ returned.result.success = (returned.result.tasks_failed = 0)
       /\ wf.status = (IF returned.result.success THEN "COMPLETED" ELSE "FAILED")
       /\ wf.status = returned.status
       /\ wf.result = returned.result

\* C6 witness: a run with a failed task returned and left the workflow FAILED
C6_Witness ==
    /\ HasReturned
    /\ returned.result.tasks_failed > 0
    /\ wf.status = "FAILED"

\* C7: with agents that always succeed with output and an evaluator that always fails, a
\* task that an unpaused run with the correction loop has executed to its end
\* (max_revisions = 2, the spec's case) is FAILED with revision_count = max_revisions, is counted in
\* tasks_failed, and the result's success is false.
C7_ExhaustedRevisionsFail ==
    \A t \in Tasks :
        (/\ HasReturned
         /\ hist.stop = "exhausted"
         /\ config.mode \in {"SEQUENTIAL", "PARALLEL"}
         /\ config.enable_correction_loop
         /\ agent = "always_ok" /\ evaluator = "always_fail"
         /\ tasks[t].max_revisions = 2
         /\ tasks[t].result # NoResult)
        => /\ tasks[t].status = "FAILED"
           /\ tasks[t].revision_count = tasks[t].max_revisions
           /\ returned.result.tasks_failed >= 1
           /\ ~returned.result.success

\* C8: a SEQUENTIAL run that leaves its loop on observing PAUSED after task 1 completed
\* (the spec's case) returns a partial result: the later tasks untouched and PENDING, the
\* tallies counting the executed tasks only, success false, the pause marked in errors,
\* and the workflow still PAUSED.
C8_PausedSequentialRun ==
    (/\ HasReturned
     /\ config.mode = "SEQUENTIAL"
     /\ hist.stop = "pause"
     /\ idx = 2 /\ tasks[1].status = "COMPLETED")
    => /\ \A t \in idx..NTasks : tasks[t] = NewTask(tasks[t].max_revisions)
       /\ returned.result.tasks_completed + returned.result.tasks_failed = idx - 1
       /\ returned.result.tasks_completed = 1
       /\ ~returned.result.success
       /\ WorkflowPaused \in Range(returned.result.errors)
       /\ returned.status = "PAUSED"

\* C9: a pause never interrupts: a new execution is submitted only by a loop head that
\* finds the workflow not PAUSED, run_workflow is never past its task loop while an
\* execution is in flight, and every execution that ends (its agent returned or raised)
\* while the workflow is PAUSED is tallied.
C9_CooperativePause ==
    /\ [](pc \in {"finish", "idle"} => \A t \in Tasks : w[t] = NoExec)
    /\ [][\A t \in Tasks :
            /\ (w[t].pc = "none" /\ w'[t].pc = "start") => wf.status # "PAUSED"
            /\ (w[t].pc = "done" /\ w'[t].pc = "none" /\ wf.status = "PAUSED")
               => hist'.tallied = hist.tallied + 1]_vars

\* the part of C9 that is about pausing alone (the first two conjuncts above)
PauseNeverInterrupts ==
    /\ [](pc \in {"finish", "idle"} => \A t \in Tasks : w[t] = NoExec)
    /\ [][\A t \in Tasks :
            (w[t].pc = "none" /\ w'[t].pc = "start") => wf.status # "PAUSED"]_vars

\* C10: pause() returns true exactly from RUNNING and then only sets the status to PAUSED;
\* resume() returns true exactly from PAUSED and then only sets the status to RUNNING; a
\* call that returns false leaves the workflow as it was.
C10_PauseResume ==
    /\ last.op = "pause"
       => /\ last.ret = (last.wf_before.status = "RUNNING")
          /\ wf = IF last.ret THEN [last.wf_before EXCEPT !.status = "PAUSED"]
                  ELSE last.wf_before
    /\ last.op = "resume"
       => /\ last.ret = (last.wf_before.status = "PAUSED")
          /\ wf = IF last.ret THEN [last.wf_before EXCEPT !.status = "RUNNING"]
                  ELSE last.wf_before

\* C10 witness: a pause() refused on a workflow that is COMPLETED
C10_Witness ==
    /\ last.op = "pause"
    /\ last.wf_before.status = "COMPLETED"
    /\ ~last.ret
    /\ wf.status = "COMPLETED"


\* C11: current_iteration never exceeds config.max_iterations, through the tallies of
\* SEQUENTIAL and PARALLEL runs, repeated runs of the same workflow and direct calls; no step
\* changes the counter once it equals max_iterations; and a direct increment_iteration call
\* returns true and adds one below the bound, returns false and changes nothing at the bound.
C11_IterationBound ==
    /\ [](wf.current_iteration <= config.max_iterations)
    /\ [][
          /\ (wf.current_iteration = config.max_iterations)
             => (wf'.current_iteration = wf.current_iteration)
          /\ (calls' = calls + 1 /\ last'.op = "increment_iteration")
             => (/\ last'.ret = (wf.current_iteration < config.max_iterations)
                 /\ wf' = IF last'.ret THEN [wf EXCEPT !.current_iteration = @ + 1]
                          ELSE wf)
       ]_vars

\* C11 witness: a direct call refused at the bound after the workflow has been run twice
C11_Witness ==
    /\ last.op = "increment_iteration"
    /\ ~last.ret
    /\ runs = MaxRuns + MaxReruns
    /\ hist.tallied > 0
    /\ wf.current_iteration = config.max_iterations

\* C12: no run_workflow call ends by an exception of a task's agent, and in the modes that
\* execute the tasks one by one every task that failed (its agent returned success = false,
\* or raised) is counted in the returned result's tasks_failed.
C12_FailuresFolded ==
    /\ returned.kind # "raised"
    /\ (HasReturned /\ config.mode # "HIERARCHICAL")
       => returned.result.tasks_failed = Cardinality({t \in Tasks : tasks[t].status = "FAILED"})

\* C13: in PARALLEL mode, when the execution of a task ended by an exception, collecting it
\* marks that task FAILED, adds one to tasks_failed and records the error, touches no other
\* task or execution and goes on with the batch; every task submitted in a batch has been
\* tallied when the loop is left; and a loop left otherwise than by a pause leaves no ready
\* task unscheduled.
C13_ExceptionPerTask ==
    /\ [][
          \A t \in Tasks :
              (w[t].pc = "done" /\ w[t].raised /\ w'[t] = NoExec)
              => (/\ tasks'[t].status = "FAILED"
                  /\ tally'.tasks_failed = tally.tasks_failed + 1
                  /\ tally'.tasks_completed = tally.tasks_completed
                  /\ TaskRaised(t) \in Range(errors')
                  /\ \A u \in Tasks \ {t} : w'[u] = w[u] /\ tasks'[u] = tasks[u]
                  /\ futures' = futures \ {t}
                  /\ pc' = IF futures' = {} THEN "par_loop" ELSE "par_wait")
       ]_vars
    /\ [](pc \in {"finish", "idle"} => hist.submitted = hist.tallied)
    /\ []((pc = "finish" /\ hist.stop # "pause") => get_ready_tasks(tasks, deps) = <<>>)

\* C13 witness: after the exception of one task was caught, a later batch (a task with a
\* dependency) is executing
C13_Witness ==
    /\ pc = "par_wait"
    /\ \E t \in Tasks : tasks[t].status = "FAILED" /\ TaskRaised(t) \in Range(errors)
    /\ \E u \in futures : deps[u] # {} /\ w[u].pc = "agent"

\* the edges of the Workflow life cycle: NOT_STARTED -> RUNNING -> {PAUSED, COMPLETED,
\* FAILED}, PAUSED -> RUNNING
WorkflowEdges ==
    {<<"NOT_STARTED", "RUNNING">>, <<"RUNNING", "PAUSED">>, <<"RUNNING", "COMPLETED">>,
     <<"RUNNING", "FAILED">>, <<"PAUSED", "RUNNING">>}

\* C14: every change of the workflow's status follows an edge of the life cycle; in
\* particular a status of COMPLETED or FAILED never changes again.
C14_WorkflowLifeCycle ==
    [][wf'.status # wf.status => <<wf.status, wf'.status>> \in WorkflowEdges]_vars

\* the edges of the Task life cycle the engine may follow
TaskEdges ==
    {<<"PENDING", "IN_PROGRESS">>, <<"NEEDS_REVISION", "PENDING">>,
     <<"NEEDS_REVISION", "IN_PROGRESS">>, <<"IN_PROGRESS", "COMPLETED">>,
     <<"IN_PROGRESS", "FAILED">>, <<"IN_PROGRESS", "NEEDS_REVISION">>}

\* C15: every change of a task's status made by the engine follows an edge of the task life
\* cycle; in particular no COMPLETED or FAILED task goes back to IN_PROGRESS.
C15_TaskLifeCycle ==
    [][\A t \in Tasks :
           tasks'[t].status # tasks[t].status
           => <<tasks[t].status, tasks'[t].status>> \in TaskEdges]_vars

\* C16: in a run_workflow call entered with the workflow PAUSED, a task that is COMPLETED
\* keeps its status and result and is not dispatched again; and when that run has gone
\* through its whole loop and returned, every task has been executed.
C16_ResumeKeepsCompleted ==
    /\ [][
          \A t \in Tasks :
              (hist.resumed /\ pc # "idle" /\ tasks[t].status = "COMPLETED")
              => (tasks'[t] = tasks[t] /\ w'[t].pc \notin {"start", "agent"})
       ]_vars
    /\ []((HasReturned /\ hist.resumed /\ hist.stop = "exhausted" /\ returned.status # "PAUSED")
          => \A t \in Tasks : tasks[t].result # NoResult)

\* the ordering part of C17: only the task at the loop's position is being executed, the
\* position moves through the list one task at a time, and the tasks before it have been
\* executed, with all the attempts of their correction loop over
SequentialDispatchOrder ==
    /\ [](config.mode = "SEQUENTIAL"
          => \A t \in Tasks :
                 /\ w[t] # NoExec => (pc = "seq_exec" /\ t = idx)
                 /\ (pc # "idle" /\ t < idx)
                    => /\ tasks[t].status \notin {"PENDING", "IN_PROGRESS"}
                       /\ config.enable_correction_loop
                          => tasks[t].status \in {"COMPLETED", "FAILED"})
    /\ [][(config.mode = "SEQUENTIAL" /\ pc # "idle" /\ idx' # idx) => idx' = idx + 1]_vars

\* C17: in SEQUENTIAL mode the tasks are dispatched in list order, each after the execution
\* of the one before it has returned, and at most one task is IN_PROGRESS at any time.
C17_SequentialOrder ==
    /\ SequentialDispatchOrder
    /\ [](config.mode = "SEQUENTIAL"
          => Cardinality({t \in Tasks : tasks[t].status = "IN_PROGRESS"}) <= 1)

\* the tasks a set of tasks depends on, directly or through at most n further tasks
RECURSIVE Ancestors(_, _, _)
Ancestors(dp, S, n) ==
    IF n = 0 THEN S ELSE Ancestors(dp, S \cup UNION {dp[u] \cap Tasks : u \in S}, n - 1)

\* every context task is a task of the workflow and no task depends on itself
Acyclic(dp) ==
    \A t \in Tasks : dp[t] \subseteq Tasks /\ t \notin Ancestors(dp, dp[t], NTasks)

\* the first run of a workflow (all its tasks PENDING before it), with agents that always
\* succeed with output and evaluations that always pass, has returned; SEQUENTIAL with any
\* dependencies, PARALLEL with acyclic ones
StubRunReturned ==
    /\ HasReturned /\ runs = 1
    /\ agent = "always_ok" /\ evaluator = "TaskEvaluator"
    /\ config.mode = "SEQUENTIAL" \/ (config.mode = "PARALLEL" /\ Acyclic(deps))

\* every task COMPLETED, tasks_completed = N, tasks_failed = 0, success, workflow COMPLETED
AllCompleted ==
    /\ \A t \in Tasks : tasks[t].status = "COMPLETED"
    /\ returned.result.tasks_completed = NTasks
    /\ returned.result.tasks_failed = 0
    /\ returned.result.success
    /\ returned.status = "COMPLETED" /\ wf.status = "COMPLETED"

\* C18 as stated: every such run ends with all tasks COMPLETED and a successful result.
C18_AsStated == StubRunReturned => AllCompleted

\* C18, amended: every such run terminates, and unless it is ended by a pause (the workflow
\* PAUSED at the head of the task loop or at run_workflow's final check) it ends with all
\* tasks COMPLETED and a successful result.
C18_AllSucceed ==
    /\ []((StubRunReturned /\ hist.stop # "pause" /\ returned.status # "PAUSED") => AllCompleted)
    /\ (pc # "idle" ~> pc = "idle")

\* C18 witness: scenario C, a PARALLEL run of the chain has returned with all tasks COMPLETED
C18_Witness ==
    /\ StubRunReturned
    /\ config.mode = "PARALLEL" /\ deps = Chain
    /\ AllCompleted

\* one attempt on a task by stubs: the agent returns success with output and the evaluator ev
\* judges it (the steps of execute_task applied in one go)
StubAttempt(task, ev, with_evaluation) ==
    IF with_evaluation /\ ~Evaluate(ev, AgentResult("ok")).passed
       /\ can_be_revised(mark_in_progress(task))
    THEN request_revision(mark_in_progress(task), Evaluate(ev, AgentResult("ok"))).task
    ELSE Task_complete(mark_in_progress(task), AgentResult("ok"))

\* the task after the attempts n, n + 1, ... of the correction loop
RECURSIVE StubAttempts(_, _, _)
StubAttempts(task, ev, n) ==
    IF StubAttempt(task, ev, TRUE).status # "NEEDS_REVISION"
    THEN StubAttempt(task, ev, TRUE)
    ELSE IF n < DefaultMaxCorrections
         THEN StubAttempts([StubAttempt(task, ev, TRUE) EXCEPT !.status = "PENDING"], ev, n + 1)
         ELSE [StubAttempt(task, ev, TRUE) EXCEPT !.status = "PENDING"]

\* the one outcome of executing a fresh task with these stubs under configuration cfg
StubOutcome(task, ev, cfg) ==
    IF cfg.enable_correction_loop
    THEN StubAttempts(task, ev, 0)
    ELSE StubAttempt(task, ev, cfg.enable_evaluation)

\* the one result of a complete SEQUENTIAL run with these stubs
StubResult(cfg) ==
    WorkflowResult(TRUE, NTasks, 0,
                   IF NTasks < cfg.max_iterations THEN NTasks ELSE cfg.max_iterations,
                   [k \in OutputKeys |-> IF k \in Tasks THEN "x" ELSE "<absent>"], <<>>)

\* the first SEQUENTIAL run of a workflow (all its tasks PENDING before it), with
\* deterministic stubs (agents that always succeed, either evaluator), has returned
SequentialStubRunReturned ==
    HasReturned /\ runs = 1 /\ config.mode = "SEQUENTIAL" /\ agent = "always_ok"

\* every task was dispatched once, in list order, and the final tasks and the result are
\* the ones determined by the task list, the stubs and the configuration
DeterminedOutcome ==
    /\ hist.submitted = NTasks /\ hist.tallied = NTasks /\ idx = NTasks + 1
    /\ \A t \in Tasks :
           tasks[t] = StubOutcome(NewTask(tasks[t].max_revisions), evaluator, config)
    /\ returned.result = StubResult(config)

C20_AllOrNothing ==
    (pc = "idle" /\ returned.kind # "none" /\ config.mode = "HIERARCHICAL")
    => /\ returned.kind = "result"
       /\ \/ /\ returned.result.tasks_completed = NTasks
             /\ returned.result.tasks_failed = 0
          \/ /\ returned.result.tasks_failed = NTasks
             /\ returned.result.tasks_completed = 0
             /\ \A t \in Tasks : tasks[t].status = "FAILED"
             /\ CrewException \in Range(returned.result.errors)

\* the result of an agent call that found the CLI unavailable or unauthenticated
AvailabilityFailure(result) ==
    ~result.success /\ result.error \in {CLINotAvailable, CLIAuthRequired}

\* C21: an agent call that finds the agent unavailable or unauthenticated returns a failed
\* TaskResult without a call of the backend and leaves the task FAILED with that result; the
\* correction loop then ends without another attempt, whatever revisions remain; and the
\* tallying of that execution adds one to tasks_failed and records the task's error.
C21_AvailabilityTerminal ==
    [][
       \A t \in Tasks :
           /\ (w[t].pc = "agent" /\ w'[t].pc # "agent" /\ AvailabilityFailure(w'[t].result))
              => /\ hist'.backend = hist.backend
                 /\ tasks'[t].status = "FAILED"
                 /\ tasks'[t].result = w'[t].result
           /\ (w[t].pc = "check" /\ AvailabilityFailure(w[t].result) /\ w'[t] # w[t])
              => /\ w'[t].pc = "done"
                 /\ tasks'[t] = tasks[t]
           /\ (w[t].pc = "done" /\ AvailabilityFailure(w[t].result) /\ w'[t] # w[t])
              => /\ w'[t] = NoExec
                 /\ tasks'[t] = tasks[t]
                 /\ tally'.tasks_failed = tally.tasks_failed + 1
                 /\ tally'.tasks_completed = tally.tasks_completed
                 /\ TaskError(t) \in Range(errors')
    ]_vars

\* C21 witness: a run with the correction loop has returned having counted as failed a task
\* whose CLI was not authenticated, which has a revision left and was attempted once, the
\* backend never having been called
C21_Witness ==
    /\ HasReturned
    /\ config.enable_correction_loop
    /\ hist.backend = 0
    /\ returned.result.tasks_failed = NTasks
    /\ \E t \in Tasks :
           /\ tasks[t].status = "FAILED"
           /\ tasks[t].result.error = CLIAuthRequired
           /\ can_be_revised(tasks[t])

\* C22: an execution of a task under the correction loop (which always evaluates) ends with
\* a failure of the agent (it raised, or returned success = false) only when the task has no
\* revision left: while revisions remain, a failed attempt is followed by another attempt.
C22_FailureRetried ==
    \A t \in Tasks :
        (w[t].pc = "done" /\ w[t].loop /\ w[t].with_evaluation
         /\ (w[t].raised \/ ~w[t].result.success))
        => ~can_be_revised(tasks[t])

\* C23: whenever the tallying of a task's execution adds to tasks_failed, an entry naming
\* that task ("Task <name>: <message>", or "Task <name> raised exception: <e>" from the
\* PARALLEL handler) is in the errors list; and the errors of the WorkflowResult that the run
\* returns contain every such entry of that list.
C23_FailedTasksReported ==
    /\ [][
          \A t \in Tasks :
              (w[t].pc = "done" /\ w'[t] = NoExec /\ tally'.tasks_failed = tally.tasks_failed + 1)
              => (TaskError(t) \in Range(errors') \/ TaskRaised(t) \in Range(errors'))
       ]_vars
    /\ []((HasReturned /\ config.mode \in {"SEQUENTIAL", "PARALLEL"})
          => {e \in Range(errors) : e.task \in Tasks} \subseteq Range(returned.result.errors))

\* the tasks among the first n that are neither COMPLETED nor FAILED
Unfinished(n) ==
    {i \in 1..n : tasks[i].status \in {"PENDING", "IN_PROGRESS", "NEEDS_REVISION", "BLOCKED"}}

\* C24: is_complete() is true exactly when no task of the workflow is other than COMPLETED or
\* FAILED (true for a workflow without tasks); get_progress() is (the number of COMPLETED or
\* FAILED tasks, the number of tasks); and is_complete() holds exactly when the two
\* components of get_progress() are equal.
C24_CompleteAndProgress ==
    /\ last.op = "is_complete" => last.ret = (Unfinished(last.n) = {})
    /\ last.op = "get_progress"
       => last.progress = <<last.n - Cardinality(Unfinished(last.n)), last.n>>
    /\ \A n \in 0..NTasks :
           is_complete(SubSeq(tasks, 1, n))
           = (get_progress(SubSeq(tasks, 1, n))[1] = get_progress(SubSeq(tasks, 1, n))[2])

\* C24 witness: the unit test's case, is_complete() true on a workflow of two tasks, one
\* COMPLETED and one FAILED
C24_Witness ==
    /\ last.op = "is_complete" /\ last.n = 2 /\ last.ret
    /\ tasks[1].status = "COMPLETED" /\ tasks[2].status = "FAILED"

\* a direct call of `op` on task t has come to its end with a result of the agent
CallEnded(op, t) ==
    last.op = op /\ last.task = t /\ w[t].pc = "done" /\ ~w[t].raised

\* C25: when execute_task(task, with_evaluation) returns, the agent has been invoked exactly
\* once; the task is NEEDS_REVISION, with revision_count one higher and task.result as
\* before, exactly when with_evaluation is true, the agent's result is successful, its
\* evaluation failed and revision_count was below max_revisions; otherwise task.result is
\* the agent's result and the status COMPLETED if it is successful, FAILED if not; and the
\* evaluator was invoked only for a successful result with with_evaluation true.
C25_ExecuteTask ==
    \A t \in Tasks :
        CallEnded("execute_task", t)
        => /\ w[t].invocations = 1
           /\ w[t].evaluated = (w[t].with_evaluation /\ w[t].result.success)
           /\ IF /\ w[t].with_evaluation
                 /\ w[t].result.success
                 /\ ~Evaluate(evaluator, w[t].result).passed
                 /\ last.task_before.revision_count < last.task_before.max_revisions
              THEN /\ tasks[t].status = "NEEDS_REVISION"
                   /\ tasks[t].revision_count = last.task_before.revision_count + 1
                   /\ tasks[t].result = last.task_before.result
              ELSE /\ tasks[t].status # "NEEDS_REVISION"
                   /\ tasks[t].result = w[t].result
                   /\ tasks[t].status = (IF w[t].result.success THEN "COMPLETED" ELSE "FAILED")
                   /\ tasks[t].revision_count = last.task_before.revision_count

\* C25 witness: an execute_task with evaluation on a task that had used all its revisions
\* returned a successful result whose evaluation failed, and the task is COMPLETED
C25_Witness ==
    \E t \in Tasks :
        /\ CallEnded("execute_task", t)
        /\ w[t].with_evaluation /\ w[t].result.success
        /\ ~Evaluate(evaluator, w[t].result).passed
        /\ last.task_before.revision_count = last.task_before.max_revisions
        /\ last.task_before.max_revisions > 0
        /\ tasks[t].status = "COMPLETED"

\* C26: during and after a call of execute_with_correction_loop(task, max_corrections) the
\* agent has been invoked at most max_corrections + 1 times and at most (max_revisions minus
\* the revision_count at entry) + 1 times; another attempt is begun only when the attempt
\* before it left the task NEEDS_REVISION; and the loop ends at the first attempt that leaves
\* the task COMPLETED or FAILED.
C26_BoundedAttempts ==
    /\ [](\A t \in Tasks :
              (last.op = "execute_with_correction_loop" /\ last.task = t /\ w[t].loop)
              => /\ w[t].invocations <= w[t].max_corrections + 1
                 /\ w[t].invocations
                    <= (last.task_before.max_revisions - last.task_before.revision_count) + 1)
    /\ [][
          \A t \in Tasks :
              (w[t].loop /\ w[t].pc = "check" /\ w'[t] # w[t])
              => /\ w'[t].pc = "start" => tasks[t].status = "NEEDS_REVISION"
                 /\ tasks[t].status \in {"COMPLETED", "FAILED"} => w'[t].pc = "done"
       ]_vars

\* C26 witness: a loop with the default max_corrections on a fresh task with max_revisions = 2
\* has ended after three invocations of the agent
C26_Witness ==
    \E t \in Tasks :
        /\ CallEnded("execute_with_correction_loop", t)
        /\ w[t].max_corrections = DefaultMaxCorrections
        /\ last.task_before.revision_count = 0 /\ last.task_before.max_revisions = 2
        /\ w[t].invocations = 3

\* C27: when execute_with_correction_loop returns, the task is COMPLETED or FAILED, and the
\* returned result has success = true exactly when the task is COMPLETED.
C27_LoopEndsTerminal ==
    \A t \in Tasks :
        (w[t].loop /\ w[t].pc = "done" /\ ~w[t].raised)
        => /\ tasks[t].status \in {"COMPLETED", "FAILED"}
           /\ w[t].result.success = (tasks[t].status = "COMPLETED")

\* C28: whenever a SEQUENTIAL or PARALLEL run_workflow that went through its whole task loop
\* (left neither on a pause nor for want of ready tasks) has returned leaving the workflow
\* COMPLETED, every task of the workflow is COMPLETED.
C28_CompletedMeansAllCompleted ==
    (/\ HasReturned
     /\ wf.status = "COMPLETED"
     /\ config.mode \in {"SEQUENTIAL", "PARALLEL"}
     /\ hist.stop = "exhausted")
    => \A t \in Tasks : tasks[t].status = "COMPLETED"

\* C29: in a SEQUENTIAL or PARALLEL run no more executions are tallied than the workflow has
\* tasks, tasks_completed + tasks_failed never exceeds the number of tasks, and the outputs
\* map has exactly tasks_completed entries.
C29_TalliedOnce ==
    config.mode \in {"SEQUENTIAL", "PARALLEL"}
    => /\ hist.tallied <= NTasks
       /\ tally.tasks_completed + tally.tasks_failed <= NTasks
       /\ Cardinality({t \in Tasks : outputs[t] # "<absent>"}) = tally.tasks_completed

\* C30: when a run_workflow call has ended, by returning a result or by raising, the status
\* the workflow had at that moment is COMPLETED, FAILED or PAUSED.
C30_NeverLeftRunning ==
    (pc = "idle" /\ returned.kind # "none")
    => returned.status \in {"COMPLETED", "FAILED", "PAUSED"}

\* the part of C30 that is about calls that return a result
ReturnedNeverRunning ==
    (pc = "idle" /\ returned.kind = "result")
    => returned.status \in {"COMPLETED", "FAILED", "PAUSED"}

\* the smaller of two numbers
Min(a, b) == IF a < b THEN a ELSE b

\* the first run of a workflow (current_iteration = 0 at its entry) in SEQUENTIAL or PARALLEL
\* mode has returned, it was not ended by a pause and no agent raised in it
UnpausedRunReturned ==
    /\ HasReturned /\ runs = 1
    /\ config.mode \in {"SEQUENTIAL", "PARALLEL"}
    /\ hist.stop # "pause" /\ returned.status # "PAUSED"
    /\ \A t \in Tasks : TaskRaised(t) \notin Range(errors)

\* C31 as stated: every such run over N tasks ends with current_iteration =
\* min(N, max_iterations).
C31_AsStated ==
    UnpausedRunReturned => wf.current_iteration = Min(NTasks, config.max_iterations)

\* C31, amended: the counter changes only in the step that tallies the result of a task's
\* execution, never in an attempt of the correction loop; every such run ends with
\* current_iteration = min(E, max_iterations), E being the number of executions it tallied,
\* and reports that value as total_iterations; and E = N in SEQUENTIAL mode.
C31_IterationPerTask ==
    /\ [][wf'.current_iteration # wf.current_iteration
          => (/\ hist'.tallied = hist.tallied + 1
              /\ wf'.current_iteration = wf.current_iteration + 1)]_vars
    /\ [](UnpausedRunReturned
          => /\ wf.current_iteration = Min(hist.tallied, config.max_iterations)
             /\ returned.result.total_iterations = wf.current_iteration
             /\ config.mode = "SEQUENTIAL" => hist.tallied = NTasks)

\* C31 witness: a run with the correction loop in which a task went through a revision has
\* returned with the counter at the cap, below the number of tasks
C31_Witness ==
    /\ UnpausedRunReturned
    /\ config.enable_correction_loop
    /\ \E t \in Tasks : tasks[t].revision_count > 0
    /\ hist.tallied = NTasks
    /\ config.max_iterations < NTasks
    /\ wf.current_iteration = config.max_iterations

\* the first run_workflow call on a SEQUENTIAL workflow has ended, by a result or by an
\* exception, without having been stopped by a pause
SequentialRunEnded ==
    /\ pc = "idle" /\ returned.kind # "none" /\ runs = 1
    /\ config.mode = "SEQUENTIAL"
    /\ hist.stop # "pause" /\ returned.status # "PAUSED"

\* C32: when such a run of N tasks with N > max_iterations has ended, all N tasks have been
\* dispatched and current_iteration is max_iterations.
C32_CapNeverStops ==
    (SequentialRunEnded /\ NTasks > config.max_iterations)
    => /\ hist.submitted = NTasks
       /\ wf.current_iteration = config.max_iterations

\* the part of C32 that is about runs that return a result
ReturnedPastTheCap ==
    (SequentialRunEnded /\ returned.kind = "result" /\ NTasks > config.max_iterations)
    => /\ hist.submitted = NTasks
       /\ wf.current_iteration = config.max_iterations

\* C33: in a run with enable_evaluation false the evaluator is never invoked, no task is
\* NEEDS_REVISION and no task's revision_count changes.
C33_NoEvaluationWhenDisabled ==
    /\ [](~config.enable_evaluation
          => \A t \in Tasks : ~w[t].evaluated /\ tasks[t].status # "NEEDS_REVISION")
    /\ [][~config.enable_evaluation
          => \A t \in Tasks : tasks'[t].revision_count = tasks[t].revision_count]_vars

\* C34: in a PARALLEL run two executions of the same task are never in flight together: a
\* batch is submitted only when no future and no execution of an earlier batch is left, it
\* holds each ready task once, and an execution in flight always belongs to a future of the
\* current batch.
C34_OneExecutionPerTask ==
    /\ [](/\ Len(get_ready_tasks(tasks, deps)) = Cardinality(Batch(tasks, deps))
          /\ \A t \in Tasks : w[t] # NoExec => t \in futures /\ pc = "par_wait"
          /\ pc # "par_wait" => futures = {})
    /\ [][\A t \in Tasks :
            (w'[t] # NoExec /\ w[t] = NoExec)
            => /\ futures = {}
               /\ \A u \in Tasks : w[u] = NoExec
               /\ t \in futures'
               /\ hist'.submitted = hist.submitted + Cardinality(futures')]_vars

\* the second batch of a run is in flight, with two executions, after a first batch whose
\* future has been collected
C34_Witness ==
    /\ config.mode = "PARALLEL" /\ pc = "par_wait"
    /\ hist.tallied >= 1
    /\ Cardinality(futures) = 2
    /\ \A t \in futures : w[t] # NoExec /\ tasks[t].status = "IN_PROGRESS"

\* the shared state the PARALLEL loop updates: the two counters, the outputs map, the errors
\* list and the workflow's iteration counter
ParallelLocals == <<tally, outputs, errors, wf.current_iteration>>

\* the same after the step
ParallelLocalsNext == <<tally', outputs', errors', wf'.current_iteration>>

\* every update of the five in a PARALLEL run is made under the lock, and at the return the
\* two counters add up to the executions that finished
C35_AsStated ==
    config.mode = "PARALLEL"
    => /\ hist.unlocked = 0
       /\ HasReturned => tally.tasks_completed + tally.tasks_failed = hist.submitted

\* C35: in a PARALLEL run every update made by the as_completed loop is made under the lock,
\* one locked block per collected future; the only update made without the lock is the
\* no-ready-tasks entry of the errors list, appended at most once, when no future and no
\* execution is left; no step of a worker touches the lock or the five; and when the run
\* returns tasks_completed + tasks_failed equals the number of executions that finished.
C35_LockedUpdates ==
    /\ [](config.mode = "PARALLEL"
          => /\ hist.locked = hist.tallied
             /\ tally.tasks_completed + tally.tasks_failed = hist.locked
             /\ hist.unlocked = (IF Unresolvable \in Range(errors) THEN 1 ELSE 0)
             /\ hist.unlocked = 1 => hist.stop = "no_ready_tasks" /\ futures = {}
             /\ HasReturned => tally.tasks_completed + tally.tasks_failed = hist.submitted)
    /\ [][(config.mode = "PARALLEL" /\ pc \in {"par_loop", "par_wait"}
           /\ ParallelLocalsNext # ParallelLocals)
          => \/ hist'.locked = hist.locked + 1 /\ hist'.unlocked = hist.unlocked
             \/ /\ hist'.unlocked = hist.unlocked + 1 /\ hist'.locked = hist.locked
                /\ errors' = Append(errors, Unresolvable)
                /\ futures = {} /\ \A t \in Tasks : w[t] = NoExec]_vars
    /\ [][(config.mode = "PARALLEL" /\ w' # w /\ futures' = futures)
          => /\ ParallelLocalsNext = ParallelLocals
             /\ hist'.locked = hist.locked /\ hist'.unlocked = hist.unlocked]_vars

\* a PARALLEL run has returned after tallying a completed and a failed execution and an
\* execution that raised, each under the lock
C35_Witness ==
    /\ config.mode = "PARALLEL" /\ HasReturned
    /\ hist.locked = 3 /\ hist.submitted = 3 /\ hist.unlocked = 0
    /\ tally.tasks_completed = 1 /\ tally.tasks_failed = 2
    /\ \E t \in Tasks : TaskRaised(t) \in Range(errors)

\* REST run endpoint, first part of the handler (routes.py run_workflow): the workflow is
\* looked up and its status read; a RUNNING workflow is answered 400 "Workflow is already
\* running" without a call of the engine
RunRequestCheck(r) ==
    /\ requests[r] = "none"
    /\ requests' = [requests EXCEPT ![r] = IF wf.status = "RUNNING" THEN "rejected" ELSE "checked"]
    /\ UNCHANGED <<tasks, deps, factory, wf, config, evaluator, agent, pc, idx, futures, w, tally, outputs,
                   errors, returned, runs, hist, last, calls>>

\* REST run endpoint, second part of the handler: orchestrator.run_workflow(workflow) is
\* called. When no other execution is inside run_workflow this is the engine's entry; when
\* one is, the call enters all the same, workflow.start() runs on the workflow the other
\* execution is running, and the steps of the overlapping execution are not followed further
RunRequestCall(r) ==
    /\ requests[r] = "checked"
    /\ IF pc = "idle"
       THEN /\ EnterRunWorkflow
            /\ requests' = [requests EXCEPT ![r] = "running"]
       ELSE /\ requests' = [requests EXCEPT ![r] = "overlapping"]
            /\ wf' = start(wf)
            /\ runs' = runs + 1
            /\ UNCHANGED <<tasks, deps, factory, config, evaluator, agent, pc, idx, futures, w, tally,
                           outputs, errors, returned, hist, last, calls>>

\* run requests for one workflow arriving on concurrent threads, SEQUENTIAL and PARALLEL
InitApi ==
    InitWith({"SEQUENTIAL", "PARALLEL"}, {DefaultMaxIterations}, {1}, {NoDeps},
             {<<"TaskEvaluator", "any">>})

NextApi ==
    \/ \E r \in Requests : RunRequestCheck(r)
    \/ \E r \in Requests : RunRequestCall(r)
    \/ SequentialNext
    \/ SequentialTally
    \/ ParallelNext
    \/ \E t \in Tasks : ParallelCollect(t)
    \/ \E t \in Tasks : ExecuteTaskBegin(t)
    \/ \E t \in Tasks, o \in AgentOutcomes : AgentReturns(t, o)
    \/ \E t \in Tasks : CorrectionLoopStep(t)
    \/ Finish

SpecApi == InitApi /\ [][NextApi]_vars

\* C36: a run request that finds the workflow RUNNING is rejected without a call of the
\* engine and without a change of the workflow, and at no time are two run_workflow
\* executions of the workflow active.
C36_OneRunAtATime ==
    /\ [][\A r \in Requests :
            (requests[r] = "none" /\ requests'[r] # "none" /\ wf.status = "RUNNING")
            => (/\ requests'[r] = "rejected"
                /\ UNCHANGED <<wf, tasks, pc, runs>>)]_vars
    /\ [](Cardinality({r \in Requests : requests[r] \in {"running", "overlapping"}}) <= 1)

\* a request that found the workflow RUNNING was rejected while the run of another went on
RejectedWhileRunning ==
    \E r1, r2 \in Requests : requests[r1] = "rejected" /\ requests[r2] = "running" /\ pc # "idle"

\* C37: in the first, non-paused SEQUENTIAL run the k-th dispatch is that of the k-th task of
\* the list, whatever its context_tasks and whatever the status of the tasks before it, and
\* when the run has ended every task of the list has been dispatched.
C37_FailureDoesNotStop ==
    /\ [][(config.mode = "SEQUENTIAL" /\ runs = 1 /\ pc = "seq_loop" /\ pc' = "seq_exec")
          => /\ idx' = idx
             /\ hist'.submitted = idx
             /\ w'[idx] # NoExec]_vars
    /\ [](SequentialRunEnded => hist.submitted = NTasks /\ idx = NTasks + 1)

\* the part of C37 that is about runs that return a result
DispatchedAfterFailure ==
    /\ [][(config.mode = "SEQUENTIAL" /\ runs = 1 /\ pc = "seq_loop" /\ pc' = "seq_exec")
          => /\ idx' = idx
             /\ hist'.submitted = idx
             /\ w'[idx] # NoExec]_vars
    /\ []((SequentialRunEnded /\ returned.kind = "result")
          => hist.submitted = NTasks /\ idx = NTasks + 1)

\* a task is dispatched although the task named in its context_tasks ended FAILED
DispatchedAfterFailedContext ==
    /\ config.mode = "SEQUENTIAL" /\ deps = Chain /\ pc = "seq_exec" /\ idx = 2
    /\ tasks[1].status = "FAILED"

\* the spans an execution has open at each of its positions
OpenSpansAt(e) ==
    CASE e.pc = "agent" -> IF e.loop THEN {"correction_loop", "execute_task"}
                                     ELSE {"execute_task"}
      [] e.pc \in {"start", "check"} -> IF e.loop THEN {"correction_loop"} ELSE {}
      [] OTHER -> {}

\* C38: no span is ended twice or ended without having been started; while an operation is
\* in progress exactly its own span and those of its callers are open; an execution that has
\* returned or raised has no span open, and when run_workflow has ended, by a result or by
\* an exception, no span is open at all.
C38_SpansEnded ==
    /\ ~hist.spans.bad
    /\ \A t \in Tasks : ~w[t].spans.bad /\ w[t].spans.open = OpenSpansAt(w[t])
    /\ hist.spans.open = (IF pc = "idle" THEN {} ELSE {"workflow"})
    /\ pc = "idle" => \A t \in Tasks : w[t].spans.open = {}

\* a run_workflow call with the correction loop has ended by the exception of an agent whose
\* task had been evaluated and sent back once: every span of the call has been ended
C38_Witness ==
    /\ pc = "idle" /\ returned.kind = "raised" /\ config.enable_correction_loop
    /\ \E t \in Tasks : tasks[t].revision_count > 0 /\ tasks[t].status = "IN_PROGRESS"
    /\ hist.spans = NoSpans
    /\ \A t \in Tasks : w[t].spans = NoSpans

\* a create_agent that looks the role up again, and stores the agent, in one step with the
\* first lookup
create_agent_store_atomic(f, c) ==
    IF f.agents[f.thread[c].role] # NoAgent
    THEN [f EXCEPT !.thread[c].pc = "out", !.thread[c].got = f.agents[f.thread[c].role]]
    ELSE [f EXCEPT !.agents[f.thread[c].role] =
                       CrewAIAgent(f.thread[c].role, f.created[f.thread[c].role] + 1,
                                   f.thread[c].config),
                   !.created[f.thread[c].role] = @ + 1,
                   !.thread[c].pc = "out",
                   !.thread[c].got = CrewAIAgent(f.thread[c].role,
                                                 f.created[f.thread[c].role] + 1,
                                                 f.thread[c].config)]

\* create_agent, its second part: agent = CrewAIAgent(agent_config); self._agents[role] =
\* agent; return agent
create_agent_store(f, c) ==
    [f EXCEPT !.agents[f.thread[c].role] =
                  CrewAIAgent(f.thread[c].role, f.created[f.thread[c].role] + 1,
                              f.thread[c].config),
              !.created[f.thread[c].role] = @ + 1,
              !.thread[c].pc = "out",
              !.thread[c].got = CrewAIAgent(f.thread[c].role, f.created[f.thread[c].role] + 1,
                                            f.thread[c].config)]

\* create_agent(role, config) called on thread c, its first part: `if role in
\* self._agents: return self._agents[role]`; else the config is chosen. TaskDistributor.
\* get_agent_for_task(task) and initialize_agents are create_agent(role) with config None
CreateAgentLookup(c, role, cfg) ==
    /\ calls < MaxCalls
    /\ factory.thread[c].pc = "out"
    /\ calls' = calls + 1
    /\ factory' = IF factory.agents[role] # NoAgent
                  THEN [factory EXCEPT !.thread[c] = [pc |-> "out", role |-> role,
                                                      config |-> cfg,
                                                      got |-> factory.agents[role]]]
                  ELSE [factory EXCEPT !.thread[c] = [pc |-> "create", role |-> role,
                                                      config |-> cfg, got |-> NoAgent]]
    /\ UNCHANGED <<tasks, deps, wf, config, evaluator, agent, pc, idx, futures, w, tally, outputs,
                   errors, returned, runs, hist, last, requests>>

\* create_agent on thread c: the agent is built, stored in the cache and returned
CreateAgentStore(c) ==
    /\ factory.thread[c].pc = "create"
    /\ factory' = create_agent_store(factory, c)
    /\ UNCHANGED <<tasks, deps, wf, config, evaluator, agent, pc, idx, futures, w, tally, outputs,
                   errors, returned, runs, hist, last, calls, requests>>

\* one factory shared by the threads of concurrent run_workflow calls (the REST API keeps
\* one OrchestratorService for all requests)
InitFactory ==
    InitWith({"PARALLEL"}, {DefaultMaxIterations}, {0}, {NoDeps}, {<<"TaskEvaluator", "any">>})

NextFactory ==
    \/ \E c \in Requests, role \in Roles, cfg \in AgentConfigs : CreateAgentLookup(c, role, cfg)
    \/ \E c \in Requests : CreateAgentStore(c)

SpecFactory == InitFactory /\ [][NextFactory]_vars

\* C39: for each role at most one agent is ever created, and every create_agent call for
\* the role that has returned has returned the agent in the cache.
C39_OneAgentPerRole ==
    /\ \A r \in Roles : factory.created[r] <= 1
    /\ \A c \in Requests :
           (factory.thread[c].pc = "out" /\ factory.thread[c].got # NoAgent)
           => factory.thread[c].got = factory.agents[factory.thread[c].role]

\* a later call with a custom config has returned the agent built from the default one
CachedAgentReturned ==
    \E c \in Requests :
        /\ factory.thread[c].pc = "out" /\ factory.thread[c].config = "custom"
        /\ factory.thread[c].got # NoAgent /\ factory.thread[c].got.config = "default"

\* the TaskResult values evaluate is called with: success or not, the output None, empty or
\* a text, the error None, empty or a text
TaskResults == {TaskResult(s, o, e) : s \in BOOLEAN, o \in {"None", "", "x"},
                                      e \in {"None", "", "err"}}

\* TaskEvaluator().evaluate(task, result) called directly: the EvaluationResult is returned,
\* the task and the result are only read
CallEvaluate(t, result) ==
    /\ calls < MaxCalls
    /\ calls' = calls + 1
    /\ last' = [TaskCall("evaluate", t, evaluate(result).passed)
                  EXCEPT !.result = result, !.evaluation = evaluate(result)]
    /\ UNCHANGED <<tasks, deps, wf, config, evaluator, agent, pc, idx, futures, w, tally, outputs,
                   errors, returned, runs, hist, requests, factory>>

\* evaluate called on a task (the first of the list) in any status, with every kind of
\* result
InitEvaluate ==
    InitWith({"SEQUENTIAL"}, {DefaultMaxIterations}, {DefaultMaxRevisions}, {NoDeps},
             {<<"TaskEvaluator", "any">>})

NextEvaluate ==
    \/ \E status \in TaskStatus : CallSetStatus(1, status)
    \/ \E result \in TaskResults : CallEvaluate(1, result)

SpecEvaluate == InitEvaluate /\ [][NextEvaluate]_vars

\* the evaluation of a failed result always has result.error as its issue
C40_AsStated ==
    (last.op = "evaluate" /\ ~last.result.success)
    => last.evaluation = EvaluationResult(FALSE, 0, last.result.error)

\* C40: evaluate leaves the task as it was and returns a value fixed by the result alone:
\* on a failed result passed = false, score 0 and one issue, the error, or "Unknown error"
\* when the error is None or empty; on a successful result with output None or "" passed =
\* false and score 30; on any other result passed = true and score 80.
C40_Evaluate ==
    /\ [](last.op = "evaluate"
          => /\ tasks[last.task] = last.task_before
             /\ last.ret = last.evaluation.passed
             /\ ~last.result.success
                => /\ ~last.evaluation.passed /\ last.evaluation.score = 0
                   /\ last.evaluation.issues =
                          (IF last.result.error \in {"None", ""} THEN "Unknown error"
                           ELSE last.result.error)
             /\ (last.result.success /\ last.result.output \in {"None", ""})
                => ~last.evaluation.passed /\ last.evaluation.score = 30
             /\ (last.result.success /\ last.result.output \notin {"None", ""})
                => last.evaluation.passed /\ last.evaluation.score = 80)
    /\ [][(last.op = "evaluate" /\ last'.op = "evaluate" /\ last'.result = last.result)
          => last'.evaluation = last.evaluation]_vars

\* a successful result without output has been evaluated, for a task that is IN_PROGRESS,
\* after three other calls
C40_Witness ==
    /\ last.op = "evaluate" /\ calls = MaxCalls
    /\ last.result.success /\ last.result.output = ""
    /\ last.evaluation.score = 30
    /\ tasks[last.task].status = "IN_PROGRESS"

====
